---- MODULE Spec2Model ----
(***************************************************************************)
(* RepublicSurpriseContract (the draft with roles, blind-box pricing,      *)
(* delivery logging, refund tickets and the legacy payment path) as a      *)
(* state machine.  Every external function of the contract is an operator  *)
(* from (storage, msg.sender, arguments) to a result: the storage after    *)
(* the call and whether the call returned or reverted.  A revert leaves    *)
(* the storage as it was before the call.  One action per external         *)
(* function applies the operator to the current storage and records the    *)
(* call in lastCall.                                                       *)
(*                                                                         *)
(* Addresses are strings; "0x0" is address(0).  block.timestamp and the    *)
(* events are not part of the storage and are left out; uint256 values     *)
(* stay far below 2^256 within the bounds, so checked arithmetic never     *)
(* overflows.                                                              *)
(***************************************************************************)
EXTENDS Integers, Sequences, FiniteSets, TLC

\* ---------------------------------------------------------------- bounds
MaxOrderId == 2
MaxRefundId == 2
MaxLogLen == 2
MaxAssign == 1
MaxProducts == 2
MaxCartLen == 3
MaxAudits == 3
MaxBalance == 5

\* ------------------------------------------------------------- universes
ZeroAddr == "0x0"
Owner == "owner"
Senders == {Owner, "alice", "bob", "carol"}
Addr == Senders \cup {ZeroAddr}

Role == {"None", "Buyer", "Delivery", "Admin", "Seller"}
ProductStatus == {"Active", "Inactive"}
RepublicSurpriseStatus == {"InStock", "OutOfStock"}
OrderStatus == {"Pending", "Paid", "OutForDelivery", "PendingConfirmation",
                "Completed", "Refunded", "Cancelled"}
RefundType == {"None", "Full", "Partial"}
RefundStatus == {"Open", "Approved", "Rejected", "Paid"}

ProductIds == 0 .. 2
OrderIds == 0 .. MaxOrderId
RefundIds == 0 .. MaxRefundId

\* ------------------------------------------------- zero values of structs
NoProduct ==
    [id |-> 0, name |-> "", description |-> "", priceWei |-> 0,
     status |-> "Active", enableIndividual |-> FALSE, enableSet |-> FALSE,
     individualPriceWei |-> 0, individualStock |-> 0,
     setPriceWei |-> 0, setStock |-> 0, setBoxes |-> 0]

NoOrder ==
    [id |-> 0, buyer |-> ZeroAddr, productId |-> 0, isSet |-> FALSE,
     qty |-> 0, paid |-> 0, status |-> "Pending", deliveryId |-> "",
     proofImage |-> ""]

NoRefund ==
    [id |-> 0, orderId |-> 0, requester |-> ZeroAddr, rType |-> "None",
     amount |-> 0, status |-> "Open"]

NoPayment ==
    [buyer |-> ZeroAddr, amountPaid |-> 0, refundApproved |-> 0,
     refundClaimed |-> FALSE]

NoUser == [exists |-> FALSE, active |-> FALSE, profileHash |-> 0]

\* ------------------------------------------------------------------ state
VARIABLES
    owner,                  \* address public owner
    admins,                 \* mapping(address => bool)
    deliveryMen,            \* mapping(address => bool)
    roles,                  \* mapping(address => Role)
    productCount,           \* uint256
    products,               \* mapping(uint256 => Product)
    productInventoryStatus, \* mapping(uint256 => RepublicSurpriseStatus)
    orderCount,             \* uint256
    orders,                 \* mapping(uint256 => Order)
    orderDeliveryMan,       \* mapping(uint256 => address)
    ordersByDeliveryMan,    \* mapping(address => uint256[])
    deliveryLogs,           \* mapping(uint256 => DeliveryLog[])
    refundCount,            \* uint256
    refunds,                \* mapping(uint256 => RefundTicket)
    payments,               \* mapping(uint256 => Payment)
    carts,                  \* mapping(address => CartItem[])
    balance,                \* address(this).balance
    users,                  \* mapping(address => UserProfile)
    lastCall,               \* the external call just executed and its outcome
    lastBuyId,              \* the order id the latest successful buy returned
    catalogAdmin,           \* catalog contract: address public admin
    catalogProducts,        \* catalog contract: mapping(uint => Product)
    productAudits           \* catalog contract: mapping(uint => ProductAudit[])

storageVars ==
    <<owner, admins, deliveryMen, roles, productCount, products,
      productInventoryStatus, orderCount, orders, orderDeliveryMan,
      ordersByDeliveryMan, deliveryLogs, refundCount, refunds, payments,
      carts, balance, users>>

catalogVars == <<catalogAdmin, catalogProducts, productAudits>>

vars == <<storageVars, lastCall, lastBuyId, catalogVars>>

\* The storage of the catalog contract (the draft with updateProduct and a
\* stored audit trail) as one value.
CatalogCur ==
    [admin |-> catalogAdmin, products |-> catalogProducts,
     productAudits |-> productAudits]

\* The contract's storage and balance as one value.
Cur ==
    [owner |-> owner, admins |-> admins, deliveryMen |-> deliveryMen,
     roles |-> roles, productCount |-> productCount, products |-> products,
     productInventoryStatus |-> productInventoryStatus,
     orderCount |-> orderCount, orders |-> orders,
     orderDeliveryMan |-> orderDeliveryMan,
     ordersByDeliveryMan |-> ordersByDeliveryMan,
     deliveryLogs |-> deliveryLogs, refundCount |-> refundCount,
     refunds |-> refunds, payments |-> payments, carts |-> carts,
     balance |-> balance, users |-> users]

\* ------------------------------------------------------- call outcomes
\* payee and sent are the ether the function itself sends out: the account
\* its call{value} or transfer names and the amount (nobody and 0 when it
\* sends none, or when the transaction reverts and the ether stays).
\* require(cond, err) failed: the transaction reverts, storage is as before.
Revert(st, err) ==
    [ok |-> FALSE, st |-> st, err |-> err, ret |-> 0, xfer |-> "none",
     nested |-> "none", payee |-> ZeroAddr, sent |-> 0]

Return(st, ret) ==
    [ok |-> TRUE, st |-> st, err |-> "", ret |-> ret, xfer |-> "none",
     nested |-> "none", payee |-> ZeroAddr, sent |-> 0]

\* ----------------------------------------------------- mapping storage
\* m[k] = v on a Solidity mapping: every key exists, a key never written
\* holds the zero value.  The model keeps the keys 0 .. bound of a mapping
\* and adds a key above them when the contract writes under it.
mappingStore(m, k, v) ==
    [x \in DOMAIN m \cup {k} |-> IF x = k THEN v ELSE m[x]]

\* the array stored under k, empty when nothing was pushed yet
mappingArray(m, k) == IF k \in DOMAIN m THEN m[k] ELSE <<>>

\* ------------------------------------------------------------ modifiers
onlyOwner_anyone(st, sender) == TRUE

onlyOwner(st, sender) == sender = st.owner

onlyAdmin_orDelivery(st, sender) == st.admins[sender] \/ st.deliveryMen[sender]

onlyAdmin(st, sender) == st.admins[sender]

onlyDeliveryOrAdmin(st, sender) == st.deliveryMen[sender] \/ st.admins[sender]

\* ------------------------------------------------------------ constructor
constructor(sender) ==
    [owner |-> sender,
     admins |-> [a \in Addr |-> a = sender],
     deliveryMen |-> [a \in Addr |-> FALSE],
     roles |-> [a \in Addr |-> IF a = sender THEN "Seller" ELSE "None"],
     productCount |-> 0,
     products |-> [i \in ProductIds |-> NoProduct],
     productInventoryStatus |-> [i \in ProductIds |-> "InStock"],
     orderCount |-> 0,
     orders |-> [i \in OrderIds |-> NoOrder],
     orderDeliveryMan |-> [i \in OrderIds |-> ZeroAddr],
     ordersByDeliveryMan |-> [a \in Addr |-> <<>>],
     deliveryLogs |-> [i \in OrderIds |-> <<>>],
     refundCount |-> 0,
     refunds |-> [i \in RefundIds |-> NoRefund],
     payments |-> [i \in OrderIds |-> NoPayment],
     carts |-> [a \in Addr |-> <<>>],
     balance |-> 0,
     users |-> [a \in Addr |-> NoUser]]

\* ------------------------------------------------------- role management
addAdmin(st, sender, account) ==
    IF ~onlyOwner(st, sender) THEN Revert(st, "owner only")
    ELSE Return([st EXCEPT !.admins[account] = TRUE,
                           !.roles[account] = "Admin"], 0)

addDeliveryMan(st, sender, account) ==
    IF ~onlyAdmin(st, sender) THEN Revert(st, "admin only")
    ELSE Return([st EXCEPT !.deliveryMen[account] = TRUE,
                           !.roles[account] = "Delivery"], 0)

isAdmin(st, account) == st.admins[account]

isDelivery(st, account) == st.deliveryMen[account]

assignRole(st, sender, account, role) ==
    IF ~onlyAdmin(st, sender) THEN Revert(st, "admin only")
    ELSE IF account = ZeroAddr THEN Revert(st, "bad account")
    ELSE LET flags ==
                 CASE role = "Admin" ->
                        [st EXCEPT !.admins[account] = TRUE,
                                   !.deliveryMen[account] = FALSE]
                   [] role = "Delivery" ->
                        [st EXCEPT !.deliveryMen[account] = TRUE,
                                   !.admins[account] = FALSE]
                   [] role = "Buyer" ->
                        [st EXCEPT !.admins[account] = FALSE,
                                   !.deliveryMen[account] = FALSE]
                   [] OTHER -> st
         IN Return([flags EXCEPT !.roles[account] = role], 0)

\* ------------------------------------------------------------------ users
registerUser(st, sender, user, profileHash) ==
    IF ~onlyAdmin(st, sender) THEN Revert(st, "admin only")
    ELSE IF st.users[user].exists THEN Revert(st, "User exists")
    ELSE LET s1 == [st EXCEPT
                      !.users[user] = [exists |-> TRUE, active |-> TRUE,
                                       profileHash |-> profileHash]]
         IN Return(IF s1.roles[user] = "None"
                   THEN [s1 EXCEPT !.roles[user] = "Buyer"]
                   ELSE s1, 0)

updateUserProfile(st, sender, user, profileHash) ==
    IF sender # user THEN Revert(st, "user only")
    ELSE IF ~st.users[user].exists THEN Revert(st, "User not found")
    ELSE Return([st EXCEPT !.users[user].profileHash = profileHash], 0)

deactivateUser(st, sender, user) ==
    IF ~onlyAdmin(st, sender) THEN Revert(st, "admin only")
    ELSE IF ~st.users[user].exists THEN Revert(st, "User not found")
    ELSE Return([st EXCEPT !.users[user].active = FALSE], 0)

reactivateUser(st, sender, user) ==
    IF ~onlyAdmin(st, sender) THEN Revert(st, "admin only")
    ELSE IF ~st.users[user].exists THEN Revert(st, "User not found")
    ELSE Return([st EXCEPT !.users[user].active = TRUE], 0)

\* ---------------------------------------------------------------- catalog
\* The require(...) chain of _validateBlindBoxConfig: the message of the first
\* requirement that fails, "" when all hold.
_validateBlindBoxConfig_modeOnly(enableIndividual, enableSet, individualPriceWei, individualStock, setPriceWei, setStock, setBoxes) ==
    IF ~(enableIndividual \/ enableSet)
    THEN "Select at least one purchase type"
    ELSE ""

_validateBlindBoxConfig(enableIndividual, enableSet, individualPriceWei, individualStock, setPriceWei, setStock, setBoxes) ==
    IF ~(enableIndividual \/ enableSet)
    THEN "Select at least one purchase type"
    ELSE IF enableIndividual /\ ~(individualPriceWei > 0)
    THEN "Individual price required"
    ELSE IF ~enableIndividual /\ individualPriceWei # 0
    THEN "Individual price must be 0"
    ELSE IF ~enableIndividual /\ individualStock # 0
    THEN "Individual stock must be 0"
    ELSE IF enableSet /\ ~(setPriceWei > 0) THEN "Set price required"
    ELSE IF enableSet /\ ~(setBoxes > 0) THEN "Set boxes required"
    ELSE IF ~enableSet /\ setPriceWei # 0 THEN "Set price must be 0"
    ELSE IF ~enableSet /\ setStock # 0 THEN "Set stock must be 0"
    ELSE IF ~enableSet /\ setBoxes # 0 THEN "Set boxes must be 0"
    ELSE ""

_updateInventoryStatus_keep(st, id) == st

_updateInventoryStatus(st, id) ==
    LET p == st.products[id]
        hasStock == \/ p.enableIndividual /\ p.individualStock > 0
                    \/ p.enableSet /\ p.setStock > 0
    IN [st EXCEPT !.productInventoryStatus[id] =
                      IF hasStock THEN "InStock" ELSE "OutOfStock"]

\* c carries the arguments after id, under their parameter names.
addProduct(st, sender, id, c) ==
    LET invalid == _validateBlindBoxConfig(c.enableIndividual, c.enableSet,
                       c.individualPriceWei, c.individualStock,
                       c.setPriceWei, c.setStock, c.setBoxes)
    IN
    IF ~onlyAdmin(st, sender) THEN Revert(st, "admin only")
    ELSE IF st.products[id].id # 0 THEN Revert(st, "Product exists")
    ELSE IF Len(c.name) = 0 THEN Revert(st, "name required")
    ELSE IF invalid # "" THEN Revert(st, invalid)
    ELSE LET s1 == [st EXCEPT
                      !.products[id] =
                          [id |-> id, name |-> c.name,
                           description |-> c.description,
                           priceWei |-> c.priceWei, status |-> "Active",
                           enableIndividual |-> c.enableIndividual,
                           enableSet |-> c.enableSet,
                           individualPriceWei |-> c.individualPriceWei,
                           individualStock |-> c.individualStock,
                           setPriceWei |-> c.setPriceWei,
                           setStock |-> c.setStock,
                           setBoxes |-> c.setBoxes],
                      !.productCount = @ + 1]
         IN Return(_updateInventoryStatus(s1, id), 0)

deactivateProduct(st, sender, id) ==
    IF ~onlyAdmin(st, sender) THEN Revert(st, "admin only")
    ELSE IF st.products[id].id = 0 THEN Revert(st, "Product not found")
    ELSE Return([st EXCEPT !.products[id].status = "Inactive"], 0)

reactivateProduct(st, sender, id) ==
    IF ~onlyAdmin(st, sender) THEN Revert(st, "admin only")
    ELSE IF st.products[id].id = 0 THEN Revert(st, "Product not found")
    ELSE Return([st EXCEPT !.products[id].status = "Active"], 0)

\* require(p.status == ProductStatus.Active, "inactive product")
isActive_always(p) == TRUE

isActive(p) == p.status = "Active"

\* ------------------------------------------------------------------- cart
addToCartV2(st, sender, productId, quantity, isSet) ==
    LET p == st.products[productId]
    IN IF ~(quantity > 0) THEN Revert(st, "quantity must be > 0")
       ELSE IF p.id = 0 THEN Revert(st, "product not found")
       ELSE IF ~isActive(p) THEN Revert(st, "inactive product")
       ELSE IF ~(IF isSet THEN p.enableSet ELSE p.enableIndividual)
       THEN Revert(st, "mode disabled")
       ELSE Return([st EXCEPT !.carts[sender] =
                        Append(@, [productId |-> productId,
                                   quantity |-> quantity, isSet |-> isSet])],
                   0)

\* legacy function: defaults to individual purchase
addToCart(st, sender, productId, quantity) ==
    addToCartV2(st, sender, productId, quantity, FALSE)

\* cart[index] = cart[cart.length - 1]; cart.pop();  index counts from 0.
swapAndPop_shift(cart, index) ==
    [k \in 1 .. Len(cart) - 1 |-> IF k <= index THEN cart[k] ELSE cart[k + 1]]

swapAndPop(cart, index) ==
    [k \in 1 .. Len(cart) - 1 |->
        IF k = index + 1 THEN cart[Len(cart)] ELSE cart[k]]

removeFromCart(st, sender, index) ==
    LET cart == st.carts[sender]
    IN IF ~(index < Len(cart)) THEN Revert(st, "bad index")
       ELSE Return([st EXCEPT !.carts[sender] = swapAndPop(cart, index)], 0)

\* delete carts[msg.sender];
clearCart_everyone(st, sender) ==
    Return([st EXCEPT !.carts = [a \in Addr |-> <<>>]], 0)

clearCart(st, sender) == Return([st EXCEPT !.carts[sender] = <<>>], 0)

getCart(st, buyer) == st.carts[buyer]

\* unit = isSet ? p.setPriceWei : p.individualPriceWei;
\* if (unit == 0) unit = p.priceWei;
cartUnit_listPrice(p, isSet) == p.priceWei

cartUnit(p, isSet) ==
    LET unit == IF isSet THEN p.setPriceWei ELSE p.individualPriceWei
    IN IF unit = 0 THEN p.priceWei ELSE unit

\* The loop of getCartTotal from position i (counted from 0) with the running
\* total.
RECURSIVE cartLoop(_, _, _, _)
cartLoop(st, cart, i, total) ==
    IF ~(i < Len(cart)) THEN total
    ELSE LET item == cart[i + 1]
             p == st.products[item.productId]
         IN cartLoop(st, cart, i + 1,
                     total + cartUnit(p, item.isSet) * item.quantity)

getCartTotal(st, buyer) == cartLoop(st, st.carts[buyer], 0, 0)

\* ------------------------------------------------------ orders / delivery
_logDelivery_overwrite(st, sender, orderId, status, note, proofImage) ==
    [st EXCEPT !.deliveryLogs =
         mappingStore(@, orderId,
             <<[status |-> status, note |-> note, proofImage |-> proofImage,
                actor |-> sender]>>)]

_logDelivery(st, sender, orderId, status, note, proofImage) ==
    [st EXCEPT !.deliveryLogs =
         mappingStore(@, orderId,
             Append(mappingArray(@, orderId),
                    [status |-> status, note |-> note,
                     proofImage |-> proofImage, actor |-> sender]))]

\* unit price of a mode, as buy and productPrice resolve it
unitPrice(p, isSet) == IF isSet THEN p.setPriceWei ELSE p.individualPriceWei

productPrice(st, productId, isSet, qty) ==
    LET unit == unitPrice(st.products[productId], isSet)
    IN IF unit > 0 THEN Return(st, unit * qty)
       ELSE Revert(st, "price missing")

\* require(isSet ? setStock >= qty : individualStock >= qty)
sufficientStock_anyMode(p, isSet, qty) == p.individualStock >= qty

sufficientStock(p, isSet, qty) ==
    IF isSet THEN p.setStock >= qty ELSE p.individualStock >= qty

\* require(msg.value == totalPrice)
paymentMatches_atLeast(value, totalPrice) == value >= totalPrice

paymentMatches(value, totalPrice) == value = totalPrice

\* value is msg.value; the contract's balance holds it once the call returns.
buy(st, sender, productId, isSet, qty, deliveryId, value) ==
    LET p == st.products[productId]
        unit == unitPrice(p, isSet)
        totalPrice == unit * qty
        orderId == st.orderCount + 1
    IN IF ~(qty > 0) THEN Revert(st, "qty > 0")
       ELSE IF p.id = 0 THEN Revert(st, "product not found")
       ELSE IF ~isActive(p) THEN Revert(st, "inactive product")
       ELSE IF ~(IF isSet THEN p.enableSet ELSE p.enableIndividual)
       THEN Revert(st, "mode disabled")
       ELSE IF ~sufficientStock(p, isSet, qty)
       THEN Revert(st, IF isSet THEN "insufficient set stock"
                       ELSE "insufficient box stock")
       ELSE IF ~(unit > 0) THEN Revert(st, "price missing")
       ELSE IF ~paymentMatches(value, totalPrice)
       THEN Revert(st, "wrong payment")
       ELSE LET s1 == IF isSet
                      THEN [st EXCEPT !.products[productId].setStock = @ - qty]
                      ELSE [st EXCEPT
                              !.products[productId].individualStock = @ - qty]
                s2 == _updateInventoryStatus(s1, productId)
                s3 == [s2 EXCEPT
                         !.orderCount = orderId,
                         !.orders = mappingStore(@, orderId,
                             [id |-> orderId, buyer |-> sender,
                              productId |-> productId, isSet |-> isSet,
                              qty |-> qty, paid |-> value, status |-> "Paid",
                              deliveryId |-> deliveryId, proofImage |-> ""]),
                         !.balance = @ + value]
            IN Return(_logDelivery(s3, sender, orderId, "Paid",
                                   "ORDER_PAID", ""), orderId)

markOutForDelivery(st, sender, orderId, deliveryId) ==
    LET o == st.orders[orderId]
    IN IF ~onlyAdmin(st, sender) THEN Revert(st, "admin only")
       ELSE IF o.id = 0 THEN Revert(st, "order not found")
       ELSE IF o.status # "Paid" THEN Revert(st, "not paid")
       ELSE LET s1 == [st EXCEPT !.orders[orderId].status = "OutForDelivery",
                                 !.orders[orderId].deliveryId = deliveryId]
            IN Return(_logDelivery(s1, sender, orderId, "OutForDelivery",
                                   "OUT_FOR_DELIVERY", ""), 0)

submitProof(st, sender, orderId, proofImage) ==
    LET o == st.orders[orderId]
    IN IF ~onlyDeliveryOrAdmin(st, sender)
       THEN Revert(st, "delivery/admin only")
       ELSE IF o.id = 0 THEN Revert(st, "order not found")
       ELSE IF o.status # "OutForDelivery" THEN Revert(st, "wrong state")
       ELSE LET s1 == [st EXCEPT
                         !.orders[orderId].proofImage = proofImage,
                         !.orders[orderId].status = "PendingConfirmation"]
            IN Return(_logDelivery(s1, sender, orderId,
                                   "PendingConfirmation", "PROOF_SUBMITTED",
                                   proofImage), 0)

confirmDelivery_anyStatus(st, sender, orderId) ==
    LET o == st.orders[orderId]
    IN IF ~onlyAdmin(st, sender) THEN Revert(st, "admin only")
       ELSE IF o.id = 0 THEN Revert(st, "order not found")
       ELSE LET s1 == [st EXCEPT !.orders[orderId].status = "Completed"]
            IN Return(_logDelivery(s1, sender, orderId, "Completed",
                                   "DELIVERY_CONFIRMED", o.proofImage), 0)

confirmDelivery(st, sender, orderId) ==
    LET o == st.orders[orderId]
    IN IF ~onlyAdmin(st, sender) THEN Revert(st, "admin only")
       ELSE IF o.id = 0 THEN Revert(st, "order not found")
       ELSE IF o.status # "PendingConfirmation"
       THEN Revert(st, "wrong state")
       ELSE LET s1 == [st EXCEPT !.orders[orderId].status = "Completed"]
            IN Return(_logDelivery(s1, sender, orderId, "Completed",
                                   "DELIVERY_CONFIRMED", o.proofImage), 0)

assignDeliveryManToOrder_anyAccount(st, sender, orderId, deliveryMan) ==
    IF ~onlyAdmin(st, sender) THEN Revert(st, "admin only")
    ELSE IF st.orders[orderId].id = 0 THEN Revert(st, "order not found")
    ELSE Return([st EXCEPT
                   !.orderDeliveryMan[orderId] = deliveryMan,
                   !.ordersByDeliveryMan[deliveryMan] = Append(@, orderId)],
                0)

assignDeliveryManToOrder(st, sender, orderId, deliveryMan) ==
    IF ~onlyAdmin(st, sender) THEN Revert(st, "admin only")
    ELSE IF ~st.deliveryMen[deliveryMan] THEN Revert(st, "not delivery")
    ELSE IF st.orders[orderId].id = 0 THEN Revert(st, "order not found")
    ELSE Return([st EXCEPT
                   !.orderDeliveryMan[orderId] = deliveryMan,
                   !.ordersByDeliveryMan[deliveryMan] = Append(@, orderId)],
                0)

\* The statuses _setDeliveryStatus lets a caller who is no admin set.
openToDelivery_any(status) == status \in OrderStatus

openToDelivery(status) ==
    status = "OutForDelivery" \/ status = "PendingConfirmation"

_setDeliveryStatus(st, sender, orderId, status, note, proofImage) ==
    LET o == st.orders[orderId]
    IN IF o.id = 0 THEN Revert(st, "order not found")
       ELSE IF ~st.admins[sender] /\ ~openToDelivery(status)
       THEN Revert(st, "admin only status")
       ELSE LET s1 == [st EXCEPT !.orders[orderId].status = status]
                s2 == IF Len(proofImage) > 0
                      THEN [s1 EXCEPT !.orders[orderId].proofImage =
                                          proofImage]
                      ELSE s1
            IN Return(_logDelivery(s2, sender, orderId, status, note,
                                   proofImage), 0)

deliveryAddStatus(st, sender, orderId, status, note, proofImage) ==
    IF ~onlyDeliveryOrAdmin(st, sender)
    THEN Revert(st, "delivery/admin only")
    ELSE _setDeliveryStatus(st, sender, orderId, status, note, proofImage)

deliveryUpdateStatus(st, sender, orderId, status, note, proofImage) ==
    IF ~onlyDeliveryOrAdmin(st, sender)
    THEN Revert(st, "delivery/admin only")
    ELSE _setDeliveryStatus(st, sender, orderId, status, note, proofImage)

getDeliveryHistory(st, orderId) == st.deliveryLogs[orderId]

getOrderDetail(st, orderId) == st.orders[orderId]

getOrdersForDelivery(st, deliveryMan) == st.ordersByDeliveryMan[deliveryMan]

\* --------------------------------------------------------- refund tickets
\* require(amount > 0 && amount <= o.paid, "bad amount")
amountInRange_noCeiling(amount, paid) == amount > 0

amountInRange(amount, paid) == amount > 0 /\ amount <= paid

\* require(o.buyer == msg.sender, "not buyer")
isBuyer_anyone(o, sender) == TRUE

isBuyer(o, sender) == o.buyer = sender

openRefund(st, sender, orderId, rType, amount) ==
    LET o == st.orders[orderId]
        refundId == st.refundCount + 1
    IN IF ~isBuyer(o, sender) THEN Revert(st, "not buyer")
       ELSE IF ~(o.status = "Completed" \/ o.status = "PendingConfirmation")
       THEN Revert(st, "not eligible")
       ELSE IF rType = "None" THEN Revert(st, "invalid type")
       ELSE IF ~amountInRange(amount, o.paid)
       THEN Revert(st, "bad amount")
       ELSE Return([st EXCEPT
                      !.refundCount = refundId,
                      !.refunds = mappingStore(@, refundId,
                          [id |-> refundId, orderId |-> orderId,
                           requester |-> sender, rType |-> rType,
                           amount |-> amount, status |-> "Open"])],
                   refundId)

approveRefund_anyStatus(st, sender, refundId) ==
    LET r == st.refunds[refundId]
    IN IF ~onlyAdmin(st, sender) THEN Revert(st, "admin only")
       ELSE IF r.id = 0 THEN Revert(st, "refund not found")
       ELSE Return([st EXCEPT !.refunds[refundId].status = "Approved"], 0)

approveRefund(st, sender, refundId) ==
    LET r == st.refunds[refundId]
    IN IF ~onlyAdmin(st, sender) THEN Revert(st, "admin only")
       ELSE IF r.id = 0 THEN Revert(st, "refund not found")
       ELSE IF r.status # "Open" THEN Revert(st, "not open")
       ELSE Return([st EXCEPT !.refunds[refundId].status = "Approved"], 0)

\* require(ok, "refund failed") after the low-level call returned false: the
\* transaction reverts, and the flip made before the call goes with it.
refundFailed_flipKept(st, flipped) ==
    [Return(flipped, 0) EXCEPT !.xfer = "failed"]

refundFailed(st, flipped) ==
    [Revert(st, "refund failed") EXCEPT !.xfer = "failed"]

\* The storage the recipient finds while the call is in flight: the flip is
\* already written, the ether has left the contract.
inFlight_flipLast(st, flipped, amount) == [st EXCEPT !.balance = @ - amount]

inFlight(st, flipped, amount) == [flipped EXCEPT !.balance = @ - amount]

\* payable(recipient).call{value: amount}("") forwards all gas and hands
\* control to the recipient, and the contract has no reentrancy guard: the
\* recipient's receive hook may call any function of the contract, as
\* msg.sender, any number of times, and then accept the ether or reject it
\* (the low-level call returns false).  recv is what the recipient does:
\* [accept, calls], calls the sequence of calls its hook makes, each a record
\* [fn, arguments] that external dispatches.  A nested call that reverts
\* leaves the storage as it found it and the hook goes on.
Accept == [accept |-> TRUE, calls |-> <<>>]

Reject == [accept |-> FALSE, calls |-> <<>>]

Hook(c) == [accept |-> TRUE, calls |-> <<c>>]

RECURSIVE external(_, _, _)
\* The storage after the hook's calls, and what the first of them came to:
\* "none" when the hook made no call, "ok", or the message it reverted with.
RECURSIVE receiveHook(_, _, _)
receiveHook(st, recipient, calls) ==
    IF calls = <<>> THEN [st |-> st, first |-> "none"]
    ELSE LET r == external(st, recipient, Head(calls))
         IN [st |-> receiveHook(r.st, recipient, Tail(calls)).st,
             first |-> IF r.ok THEN "ok" ELSE r.err]

\* The low-level call also returns false when the balance is below the
\* amount.
RECURSIVE payRefund(_, _, _, _)
payRefund(st, sender, refundId, recv) ==
    LET r == st.refunds[refundId]
        o == st.orders[r.orderId]
    IN IF ~onlyAdmin(st, sender) THEN Revert(st, "admin only")
       ELSE IF r.id = 0 THEN Revert(st, "refund not found")
       ELSE IF r.status # "Approved" THEN Revert(st, "not approved")
       ELSE IF o.id = 0 THEN Revert(st, "order not found")
       ELSE LET s1 == [st EXCEPT !.orders[r.orderId].status = "Refunded",
                                 !.refunds[refundId].status = "Paid"]
            IN IF s1.balance < r.amount \/ ~recv.accept
               THEN refundFailed(st, s1)
               ELSE LET s2 == inFlight(st, s1, r.amount)
                        hook == receiveHook(s2, r.requester, recv.calls)
                    IN [Return(hook.st, 0) EXCEPT
                          !.xfer = "ok", !.nested = hook.first,
                          !.payee = r.requester, !.sent = r.amount]

\* ------------------------------------------------- legacy payment records
\* if (orderId > orderCount) orderCount = orderId;
syncOrderCount_always(count, orderId) == orderId

syncOrderCount(count, orderId) == IF orderId > count THEN orderId ELSE count

\* uint256 unit = p.individualPriceWei; if (unit == 0) unit = p.priceWei;
legacyUnit_listPrice(p) == p.priceWei

legacyUnit(p) ==
    IF p.individualPriceWei = 0 THEN p.priceWei ELSE p.individualPriceWei

paywithMetamask(st, sender, orderId, productId, value) ==
    LET p == st.products[productId]
        unit == legacyUnit(p)
    IN IF ~(value > 0) THEN Revert(st, "pay > 0")
       ELSE IF st.orders[orderId].id # 0 THEN Revert(st, "order exists")
       ELSE IF p.id = 0 THEN Revert(st, "product not found")
       ELSE IF ~isActive(p) THEN Revert(st, "inactive product")
       ELSE IF ~p.enableIndividual THEN Revert(st, "individual disabled")
       ELSE IF ~(p.individualStock >= 1)
       THEN Revert(st, "insufficient stock")
       ELSE IF ~(unit > 0) THEN Revert(st, "price missing")
       ELSE IF value # unit THEN Revert(st, "incorrect amount")
       ELSE LET s1 == [st EXCEPT
                         !.products[productId].individualStock = @ - 1]
                s2 == _updateInventoryStatus(s1, productId)
            IN Return([s2 EXCEPT
                         !.payments[orderId] =
                             [buyer |-> sender, amountPaid |-> value,
                              refundApproved |-> 0, refundClaimed |-> FALSE],
                         !.orders[orderId] =
                             [id |-> orderId, buyer |-> sender,
                              productId |-> productId, isSet |-> FALSE,
                              qty |-> 1, paid |-> value, status |-> "Paid",
                              deliveryId |-> "", proofImage |-> ""],
                         !.orderCount = syncOrderCount(@, orderId),
                         !.balance = @ + value],
                      0)

approvePartialRefund(st, sender, orderId, refundAmount) ==
    LET p == st.payments[orderId]
    IN IF ~onlyAdmin(st, sender) THEN Revert(st, "admin only")
       ELSE IF ~(p.amountPaid > 0) THEN Revert(st, "no payment")
       ELSE IF ~(refundAmount > 0 /\ refundAmount < p.amountPaid)
       THEN Revert(st, "invalid refund")
       ELSE IF p.refundClaimed THEN Revert(st, "refund claimed")
       ELSE Return([st EXCEPT !.payments[orderId].refundApproved =
                                  refundAmount], 0)

approveFullRefund_afterClaim(st, sender, orderId) ==
    LET p == st.payments[orderId]
    IN IF ~onlyAdmin(st, sender) THEN Revert(st, "admin only")
       ELSE IF ~(p.amountPaid > 0) THEN Revert(st, "no payment")
       ELSE Return([st EXCEPT !.payments[orderId].refundApproved =
                                  p.amountPaid], 0)

approveFullRefund(st, sender, orderId) ==
    LET p == st.payments[orderId]
    IN IF ~onlyAdmin(st, sender) THEN Revert(st, "admin only")
       ELSE IF ~(p.amountPaid > 0) THEN Revert(st, "no payment")
       ELSE IF p.refundClaimed THEN Revert(st, "refund claimed")
       ELSE Return([st EXCEPT !.payments[orderId].refundApproved =
                                  p.amountPaid], 0)

\* recv as in payRefund; the order's status is written after the call.
RECURSIVE claimRefund(_, _, _, _)
claimRefund(st, sender, orderId, recv) ==
    LET p == st.payments[orderId]
        refundAmount == p.refundApproved
    IN IF ~(p.amountPaid > 0) THEN Revert(st, "no payment")
       ELSE IF ~(p.refundApproved > 0) THEN Revert(st, "no refund")
       ELSE IF p.refundClaimed THEN Revert(st, "refund claimed")
       ELSE IF sender # p.buyer THEN Revert(st, "not buyer")
       ELSE LET s1 == [st EXCEPT !.payments[orderId].refundClaimed = TRUE,
                                 !.payments[orderId].refundApproved = 0]
            IN IF s1.balance < refundAmount \/ ~recv.accept
               THEN refundFailed(st, s1)
               ELSE LET s2 == inFlight(st, s1, refundAmount)
                        hook == receiveHook(s2, p.buyer, recv.calls)
                        s3 == hook.st
                        s4 == IF s3.orders[orderId].id # 0
                              THEN [s3 EXCEPT !.orders[orderId].status =
                                                  "Refunded"]
                              ELSE s3
                    IN [Return(s4, 0) EXCEPT
                          !.xfer = "ok", !.nested = hook.first,
                          !.payee = p.buyer, !.sent = refundAmount]

\* --------------------------------------------------------------- treasury
\* to.transfer(amount) reverts when the recipient rejects the ether.
withdraw(st, sender, to, amount, recv) ==
    IF ~onlyAdmin(st, sender) THEN Revert(st, "admin only")
    ELSE IF ~(amount <= st.balance) THEN Revert(st, "exceeds balance")
    ELSE IF recv = "reject"
    THEN [Revert(st, "transfer failed") EXCEPT !.xfer = "failed"]
    ELSE [Return([st EXCEPT !.balance = @ - amount], 0) EXCEPT
            !.xfer = "ok", !.payee = to, !.sent = amount]

\* ----------------------------------------------------------------- safety
\* receive() external payable {}
receive(st, sender, value) == Return([st EXCEPT !.balance = @ + value], 0)

\* ------------------------------------------------------- external calls
\* The call c = [fn, arguments] made by sender: every function of the
\* contract that writes storage.
external(st, sender, c) ==
    CASE c.fn = "addAdmin" -> addAdmin(st, sender, c.account)
      [] c.fn = "addDeliveryMan" -> addDeliveryMan(st, sender, c.account)
      [] c.fn = "assignRole" -> assignRole(st, sender, c.account, c.role)
      [] c.fn = "registerUser" ->
             registerUser(st, sender, c.user, c.profileHash)
      [] c.fn = "updateUserProfile" ->
             updateUserProfile(st, sender, c.user, c.profileHash)
      [] c.fn = "deactivateUser" -> deactivateUser(st, sender, c.user)
      [] c.fn = "reactivateUser" -> reactivateUser(st, sender, c.user)
      [] c.fn = "addProduct" -> addProduct(st, sender, c.id, c.config)
      [] c.fn = "deactivateProduct" -> deactivateProduct(st, sender, c.id)
      [] c.fn = "reactivateProduct" -> reactivateProduct(st, sender, c.id)
      [] c.fn = "addToCart" ->
             addToCart(st, sender, c.productId, c.quantity)
      [] c.fn = "addToCartV2" ->
             addToCartV2(st, sender, c.productId, c.quantity, c.isSet)
      [] c.fn = "removeFromCart" -> removeFromCart(st, sender, c.index)
      [] c.fn = "clearCart" -> clearCart(st, sender)
      [] c.fn = "buy" ->
             buy(st, sender, c.productId, c.isSet, c.qty, c.deliveryId,
                 c.value)
      [] c.fn = "markOutForDelivery" ->
             markOutForDelivery(st, sender, c.orderId, c.deliveryId)
      [] c.fn = "submitProof" ->
             submitProof(st, sender, c.orderId, c.proofImage)
      [] c.fn = "confirmDelivery" -> confirmDelivery(st, sender, c.orderId)
      [] c.fn = "assignDeliveryManToOrder" ->
             assignDeliveryManToOrder(st, sender, c.orderId, c.deliveryMan)
      [] c.fn = "deliveryAddStatus" ->
             deliveryAddStatus(st, sender, c.orderId, c.status, c.note,
                               c.proofImage)
      [] c.fn = "deliveryUpdateStatus" ->
             deliveryUpdateStatus(st, sender, c.orderId, c.status, c.note,
                                  c.proofImage)
      [] c.fn = "openRefund" ->
             openRefund(st, sender, c.orderId, c.rType, c.amount)
      [] c.fn = "approveRefund" -> approveRefund(st, sender, c.refundId)
      [] c.fn = "payRefund" -> payRefund(st, sender, c.refundId, c.recv)
      [] c.fn = "paywithMetamask" ->
             paywithMetamask(st, sender, c.orderId, c.productId, c.value)
      [] c.fn = "approvePartialRefund" ->
             approvePartialRefund(st, sender, c.orderId, c.refundAmount)
      [] c.fn = "approveFullRefund" ->
             approveFullRefund(st, sender, c.orderId)
      [] c.fn = "claimRefund" -> claimRefund(st, sender, c.orderId, c.recv)
      [] c.fn = "withdraw" -> withdraw(st, sender, c.to, c.amount, c.recv)
      [] c.fn = "receive" -> receive(st, sender, c.value)

\* ------------------------------------------------------ catalog contract
\* The catalog draft of the contract: one admin (the deployer), products with
\* updateProduct, and an audit record stored per mutating call.  Its functions
\* that share a name with the merged contract's carry the prefix catalog.
onlyCatalogAdmin(st, sender) == sender = st.admin

catalogConstructor(sender) ==
    [admin |-> sender,
     products |-> [i \in ProductIds |-> NoProduct],
     productAudits |-> [i \in ProductIds |-> <<>>]]

\* productAudits[id].push(ProductAudit(block.timestamp, msg.sender, action))
_logProductAudit_silent(st, sender, id, action) == st

_logProductAudit(st, sender, id, action) ==
    [st EXCEPT !.productAudits[id] =
         Append(@, [actor |-> sender, action |-> action])]

\* Unlike the merged contract's, an enabled mode must have stock.
catalogValidateBlindBoxConfig(enableIndividual, enableSet, individualPriceWei, individualStock, setPriceWei, setStock, setBoxes) ==
    IF ~(enableIndividual \/ enableSet)
    THEN "Select at least one purchase type"
    ELSE IF enableIndividual /\ ~(individualPriceWei > 0)
    THEN "Individual price required"
    ELSE IF enableIndividual /\ ~(individualStock > 0)
    THEN "Individual stock required"
    ELSE IF ~enableIndividual /\ individualPriceWei # 0
    THEN "Individual price must be 0"
    ELSE IF ~enableIndividual /\ individualStock # 0
    THEN "Individual stock must be 0"
    ELSE IF enableSet /\ ~(setPriceWei > 0) THEN "Set price required"
    ELSE IF enableSet /\ ~(setStock > 0) THEN "Set stock required"
    ELSE IF enableSet /\ ~(setBoxes > 0) THEN "Set boxes required"
    ELSE IF ~enableSet /\ setPriceWei # 0 THEN "Set price must be 0"
    ELSE IF ~enableSet /\ setStock # 0 THEN "Set stock must be 0"
    ELSE IF ~enableSet /\ setBoxes # 0 THEN "Set boxes must be 0"
    ELSE ""

catalogAddProduct(st, sender, id, c) ==
    LET invalid == catalogValidateBlindBoxConfig(c.enableIndividual,
                       c.enableSet, c.individualPriceWei, c.individualStock,
                       c.setPriceWei, c.setStock, c.setBoxes)
    IN IF ~onlyCatalogAdmin(st, sender)
       THEN Revert(st, "Only admin can perform this action")
       ELSE IF st.products[id].id # 0 THEN Revert(st, "Product exists")
       ELSE IF invalid # "" THEN Revert(st, invalid)
       ELSE LET s1 == [st EXCEPT
                         !.products[id] =
                             [id |-> id, name |-> c.name,
                              description |-> c.description,
                              priceWei |-> c.priceWei, status |-> "Active",
                              enableIndividual |-> c.enableIndividual,
                              enableSet |-> c.enableSet,
                              individualPriceWei |-> c.individualPriceWei,
                              individualStock |-> c.individualStock,
                              setPriceWei |-> c.setPriceWei,
                              setStock |-> c.setStock,
                              setBoxes |-> c.setBoxes]]
            IN Return(_logProductAudit(s1, sender, id, "ADD_PRODUCT"), 0)

updateProduct(st, sender, id, c) ==
    LET invalid == catalogValidateBlindBoxConfig(c.enableIndividual,
                       c.enableSet, c.individualPriceWei, c.individualStock,
                       c.setPriceWei, c.setStock, c.setBoxes)
    IN IF ~onlyCatalogAdmin(st, sender)
       THEN Revert(st, "Only admin can perform this action")
       ELSE IF st.products[id].id = 0 THEN Revert(st, "Product not found")
       ELSE IF invalid # "" THEN Revert(st, invalid)
       ELSE LET s1 == [st EXCEPT
                         !.products[id].name = c.name,
                         !.products[id].description = c.description,
                         !.products[id].priceWei = c.priceWei,
                         !.products[id].enableIndividual = c.enableIndividual,
                         !.products[id].enableSet = c.enableSet,
                         !.products[id].individualPriceWei =
                             c.individualPriceWei,
                         !.products[id].individualStock = c.individualStock,
                         !.products[id].setPriceWei = c.setPriceWei,
                         !.products[id].setStock = c.setStock,
                         !.products[id].setBoxes = c.setBoxes]
            IN Return(_logProductAudit(s1, sender, id, "UPDATE_PRODUCT"), 0)

catalogDeactivateProduct(st, sender, id) ==
    IF ~onlyCatalogAdmin(st, sender)
    THEN Revert(st, "Only admin can perform this action")
    ELSE IF st.products[id].id = 0 THEN Revert(st, "Product not found")
    ELSE Return(_logProductAudit(
                    [st EXCEPT !.products[id].status = "Inactive"],
                    sender, id, "DEACTIVATE_PRODUCT"), 0)

catalogReactivateProduct(st, sender, id) ==
    IF ~onlyCatalogAdmin(st, sender)
    THEN Revert(st, "Only admin can perform this action")
    ELSE IF st.products[id].id = 0 THEN Revert(st, "Product not found")
    ELSE Return(_logProductAudit(
                    [st EXCEPT !.products[id].status = "Active"],
                    sender, id, "REACTIVATE_PRODUCT"), 0)

getProductAuditCount(st, id) == Len(st.productAudits[id])

\* ================================================================ actions
\* lastCall: the latest call that returned: the function, msg.sender, the
\* arguments and the outcome.  A call that reverts changes nothing at all.
NoCall ==
    [op |-> "constructor", sender |-> Owner, ret |-> 0, xfer |-> "none",
     nested |-> "none", account |-> ZeroAddr, productId |-> 0,
     orderId |-> 0, refundId |-> 0, isSet |-> FALSE, qty |-> 0, value |-> 0,
     status |-> "Pending", recv |-> Accept, payee |-> ZeroAddr, sent |-> 0]

Call(op, sender) == [NoCall EXCEPT !.op = op, !.sender = sender]

\* The transaction ends.  When it returned, storage becomes r.st and the call
\* is recorded; when it reverted, everything is as before the call.
Commit(call, r) ==
    IF r.ok
    THEN /\ owner' = r.st.owner
         /\ admins' = r.st.admins
         /\ deliveryMen' = r.st.deliveryMen
         /\ roles' = r.st.roles
         /\ productCount' = r.st.productCount
         /\ products' = r.st.products
         /\ productInventoryStatus' = r.st.productInventoryStatus
         /\ orderCount' = r.st.orderCount
         /\ orders' = r.st.orders
         /\ orderDeliveryMan' = r.st.orderDeliveryMan
         /\ ordersByDeliveryMan' = r.st.ordersByDeliveryMan
         /\ deliveryLogs' = r.st.deliveryLogs
         /\ refundCount' = r.st.refundCount
         /\ refunds' = r.st.refunds
         /\ payments' = r.st.payments
         /\ carts' = r.st.carts
         /\ balance' = r.st.balance
         /\ users' = r.st.users
         /\ lastCall' = [call EXCEPT !.ret = r.ret, !.xfer = r.xfer,
                                     !.nested = r.nested,
                                     !.payee = r.payee, !.sent = r.sent]
         /\ lastBuyId' = IF call.op = "buy" THEN r.ret ELSE lastBuyId
         /\ UNCHANGED catalogVars
    ELSE UNCHANGED vars

\* The same for a transaction on the catalog contract.
CatalogCommit(call, r) ==
    IF r.ok
    THEN /\ catalogAdmin' = r.st.admin
         /\ catalogProducts' = r.st.products
         /\ productAudits' = r.st.productAudits
         /\ lastCall' = [call EXCEPT !.ret = r.ret]
         /\ UNCHANGED <<storageVars, lastBuyId>>
    ELSE UNCHANGED vars

\* The storage is st, no call has been made from it yet.
Start(st) ==
    /\ owner = st.owner
    /\ admins = st.admins
    /\ deliveryMen = st.deliveryMen
    /\ roles = st.roles
    /\ productCount = st.productCount
    /\ products = st.products
    /\ productInventoryStatus = st.productInventoryStatus
    /\ orderCount = st.orderCount
    /\ orders = st.orders
    /\ orderDeliveryMan = st.orderDeliveryMan
    /\ ordersByDeliveryMan = st.ordersByDeliveryMan
    /\ deliveryLogs = st.deliveryLogs
    /\ refundCount = st.refundCount
    /\ refunds = st.refunds
    /\ payments = st.payments
    /\ carts = st.carts
    /\ balance = st.balance
    /\ users = st.users
    /\ lastCall = NoCall
    /\ lastBuyId = 0
    /\ catalogAdmin = catalogConstructor(Owner).admin
    /\ catalogProducts = catalogConstructor(Owner).products
    /\ productAudits = catalogConstructor(Owner).productAudits

\* ---- inputs
DeliveryIds == {"DHL-123"}
Proofs == {"", "ipfs://proof"}
Notes == {"note"}

Config(name, eI, eS, iP, iS, sP, sS, sB) ==
    [name |-> name, description |-> "blind box", priceWei |-> 4,
     enableIndividual |-> eI, enableSet |-> eS, individualPriceWei |-> iP,
     individualStock |-> iS, setPriceWei |-> sP, setStock |-> sS,
     setBoxes |-> sB]

BoxAndSet == Config("Box", TRUE, TRUE, 2, 2, 3, 1, 6)
BoxOnly == Config("Box", TRUE, FALSE, 2, 2, 0, 0, 0)
SetOnly == Config("Box", FALSE, TRUE, 0, 0, 3, 1, 6)
ProductConfigs ==
    {BoxAndSet, BoxOnly, SetOnly,
     Config("", TRUE, FALSE, 2, 2, 0, 0, 0),
     Config("Box", FALSE, FALSE, 0, 0, 0, 0, 0),
     Config("Box", TRUE, FALSE, 0, 2, 0, 0, 0),
     Config("Box", TRUE, FALSE, 2, 2, 0, 1, 0)}

\* ---- one action per external function; S is the set of callers tried
AddAdmin(S, A) ==
    \E sender \in S, account \in A :
        Commit([Call("addAdmin", sender) EXCEPT !.account = account],
               addAdmin(Cur, sender, account))

AddDeliveryMan(S, A) ==
    \E sender \in S, account \in A :
        Commit([Call("addDeliveryMan", sender) EXCEPT !.account = account],
               addDeliveryMan(Cur, sender, account))

AssignRole(S, A, R) ==
    \E sender \in S, account \in A, role \in R :
        Commit([Call("assignRole", sender) EXCEPT !.account = account],
               assignRole(Cur, sender, account, role))

RegisterUser(S, A, H) ==
    \E sender \in S, user \in A, profileHash \in H :
        Commit([Call("registerUser", sender) EXCEPT
                  !.account = user, !.value = profileHash],
               registerUser(Cur, sender, user, profileHash))

UpdateUserProfile(S, A, H) ==
    \E sender \in S, user \in A, profileHash \in H :
        Commit([Call("updateUserProfile", sender) EXCEPT
                  !.account = user, !.value = profileHash],
               updateUserProfile(Cur, sender, user, profileHash))

DeactivateUser(S, A) ==
    \E sender \in S, user \in A :
        Commit([Call("deactivateUser", sender) EXCEPT !.account = user],
               deactivateUser(Cur, sender, user))

ReactivateUser(S, A) ==
    \E sender \in S, user \in A :
        Commit([Call("reactivateUser", sender) EXCEPT !.account = user],
               reactivateUser(Cur, sender, user))

AddProduct(S, P, C) ==
    \E sender \in S, id \in P, c \in C :
        Commit([Call("addProduct", sender) EXCEPT !.productId = id],
               addProduct(Cur, sender, id, c))

DeactivateProduct(S, P) ==
    \E sender \in S, id \in P :
        Commit([Call("deactivateProduct", sender) EXCEPT !.productId = id],
               deactivateProduct(Cur, sender, id))

ReactivateProduct(S, P) ==
    \E sender \in S, id \in P :
        Commit([Call("reactivateProduct", sender) EXCEPT !.productId = id],
               reactivateProduct(Cur, sender, id))

AddToCart(S, P, Q) ==
    \E sender \in S, productId \in P, quantity \in Q :
        /\ Len(carts[sender]) < MaxCartLen
        /\ Commit([Call("addToCart", sender) EXCEPT
                     !.productId = productId, !.qty = quantity],
                  addToCart(Cur, sender, productId, quantity))

AddToCartV2(S, P, Q) ==
    \E sender \in S, productId \in P, quantity \in Q, isSet \in BOOLEAN :
        /\ Len(carts[sender]) < MaxCartLen
        /\ Commit([Call("addToCartV2", sender) EXCEPT
                     !.productId = productId, !.qty = quantity,
                     !.isSet = isSet],
                  addToCartV2(Cur, sender, productId, quantity, isSet))

RemoveFromCart(S, X) ==
    \E sender \in S, index \in X :
        Commit([Call("removeFromCart", sender) EXCEPT !.value = index],
               removeFromCart(Cur, sender, index))

ClearCart(S) ==
    \E sender \in S :
        Commit(Call("clearCart", sender), clearCart(Cur, sender))

Buy(S, P, Q, V) ==
    \E sender \in S, productId \in P, isSet \in BOOLEAN, qty \in Q,
       deliveryId \in DeliveryIds, value \in V :
        LET r == buy(Cur, sender, productId, isSet, qty, deliveryId, value)
        IN /\ r.ok => orderCount < MaxOrderId
           /\ Commit([Call("buy", sender) EXCEPT
                        !.productId = productId, !.isSet = isSet,
                        !.qty = qty, !.value = value], r)

PayWithMetamask(S, O, P, V) ==
    \E sender \in S, orderId \in O, productId \in P, value \in V :
        Commit([Call("paywithMetamask", sender) EXCEPT
                  !.orderId = orderId, !.productId = productId, !.qty = 1,
                  !.value = value],
               paywithMetamask(Cur, sender, orderId, productId, value))

MarkOutForDelivery(S, O) ==
    \E sender \in S, orderId \in O, deliveryId \in DeliveryIds :
        Commit([Call("markOutForDelivery", sender) EXCEPT
                  !.orderId = orderId],
               markOutForDelivery(Cur, sender, orderId, deliveryId))

SubmitProof(S, O, I) ==
    \E sender \in S, orderId \in O, proofImage \in I :
        Commit([Call("submitProof", sender) EXCEPT !.orderId = orderId],
               submitProof(Cur, sender, orderId, proofImage))

ConfirmDelivery(S, O) ==
    \E sender \in S, orderId \in O :
        Commit([Call("confirmDelivery", sender) EXCEPT !.orderId = orderId],
               confirmDelivery(Cur, sender, orderId))

AssignDeliveryManToOrder(S, O, A) ==
    \E sender \in S, orderId \in O, deliveryMan \in A :
        LET r == assignDeliveryManToOrder(Cur, sender, orderId, deliveryMan)
        IN /\ r.ok => Len(ordersByDeliveryMan[deliveryMan]) < MaxAssign
           /\ Commit([Call("assignDeliveryManToOrder", sender) EXCEPT
                        !.orderId = orderId, !.account = deliveryMan], r)

DeliveryAddStatus(S, O, T, I) ==
    \E sender \in S, orderId \in O, status \in T, note \in Notes,
       proofImage \in I :
        LET r == deliveryAddStatus(Cur, sender, orderId, status, note,
                                   proofImage)
        IN /\ r.ok => Len(deliveryLogs[orderId]) < MaxLogLen
           /\ Commit([Call("deliveryAddStatus", sender) EXCEPT
                        !.orderId = orderId, !.status = status], r)

DeliveryUpdateStatus(S, O, T, I) ==
    \E sender \in S, orderId \in O, status \in T, note \in Notes,
       proofImage \in I :
        LET r == deliveryUpdateStatus(Cur, sender, orderId, status, note,
                                      proofImage)
        IN /\ r.ok => Len(deliveryLogs[orderId]) < MaxLogLen
           /\ Commit([Call("deliveryUpdateStatus", sender) EXCEPT
                        !.orderId = orderId, !.status = status], r)

OpenRefund(S, O, T, M) ==
    \E sender \in S, orderId \in O, rType \in T, amount \in M :
        LET r == openRefund(Cur, sender, orderId, rType, amount)
        IN /\ r.ok => refundCount < MaxRefundId
           /\ Commit([Call("openRefund", sender) EXCEPT
                        !.orderId = orderId, !.value = amount], r)

ApproveRefund(S, F) ==
    \E sender \in S, refundId \in F :
        Commit([Call("approveRefund", sender) EXCEPT !.refundId = refundId],
               approveRefund(Cur, sender, refundId))

\* A call the recipient's hook makes is held to the bound its own action
\* holds it to: the transaction r is taken only when the storage it leaves
\* is within the bound of every call of recv that went through.
hookInBounds(recv, r) ==
    r.ok =>
        \A i \in DOMAIN recv.calls :
            LET c == recv.calls[i]
            IN CASE c.fn = "buy" -> r.st.orderCount <= MaxOrderId
                 [] c.fn = "openRefund" -> r.st.refundCount <= MaxRefundId
                 [] c.fn \in {"addToCart", "addToCartV2"} ->
                        \A a \in Addr : Len(r.st.carts[a]) <= MaxCartLen
                 [] c.fn = "assignDeliveryManToOrder" ->
                        r.nested = "ok" =>
                            Len(r.st.ordersByDeliveryMan[c.deliveryMan])
                                <= MaxAssign
                 [] c.fn \in {"deliveryAddStatus", "deliveryUpdateStatus"} ->
                        r.nested = "ok" =>
                            Len(r.st.deliveryLogs[c.orderId]) <= MaxLogLen
                 [] c.fn = "receive" -> r.st.balance <= MaxBalance
                 [] OTHER -> TRUE

PayRefund(S, F, B) ==
    \E sender \in S, refundId \in F, recv \in B :
        LET r == payRefund(Cur, sender, refundId, recv)
        IN /\ hookInBounds(recv, r)
           /\ Commit([Call("payRefund", sender) EXCEPT
                        !.refundId = refundId,
                        !.orderId = refunds[refundId].orderId,
                        !.value = refunds[refundId].amount,
                        !.recv = recv], r)

ApprovePartialRefund(S, O, M) ==
    \E sender \in S, orderId \in O, refundAmount \in M :
        Commit([Call("approvePartialRefund", sender) EXCEPT
                  !.orderId = orderId, !.value = refundAmount],
               approvePartialRefund(Cur, sender, orderId, refundAmount))

ApproveFullRefund(S, O) ==
    \E sender \in S, orderId \in O :
        Commit([Call("approveFullRefund", sender) EXCEPT
                  !.orderId = orderId],
               approveFullRefund(Cur, sender, orderId))

ClaimRefund(S, O, B) ==
    \E sender \in S, orderId \in O, recv \in B :
        LET r == claimRefund(Cur, sender, orderId, recv)
        IN /\ hookInBounds(recv, r)
           /\ Commit([Call("claimRefund", sender) EXCEPT
                        !.orderId = orderId,
                        !.value = payments[orderId].refundApproved,
                        !.recv = recv], r)

Withdraw(S, A, M) ==
    \E sender \in S, to \in A, amount \in M, recv \in {"accept", "reject"} :
        Commit([Call("withdraw", sender) EXCEPT
                  !.account = to, !.value = amount],
               withdraw(Cur, sender, to, amount, recv))

\* Plain ether sent to the contract, up to a balance of MaxBalance.
Receive(S, V) ==
    \E sender \in S, value \in V :
        /\ balance + value <= MaxBalance
        /\ Commit([Call("receive", sender) EXCEPT !.value = value],
                  receive(Cur, sender, value))

\* ---- the catalog contract's functions
CatalogAddProduct(S, P, C) ==
    \E sender \in S, id \in P, c \in C :
        /\ getProductAuditCount(CatalogCur, id) < MaxAudits
        /\ CatalogCommit([Call("addProduct", sender) EXCEPT !.productId = id],
                         catalogAddProduct(CatalogCur, sender, id, c))

UpdateProduct(S, P, C) ==
    \E sender \in S, id \in P, c \in C :
        /\ getProductAuditCount(CatalogCur, id) < MaxAudits
        /\ CatalogCommit([Call("updateProduct", sender) EXCEPT
                            !.productId = id],
                         updateProduct(CatalogCur, sender, id, c))

CatalogDeactivateProduct(S, P) ==
    \E sender \in S, id \in P :
        /\ getProductAuditCount(CatalogCur, id) < MaxAudits
        /\ CatalogCommit([Call("deactivateProduct", sender) EXCEPT
                            !.productId = id],
                         catalogDeactivateProduct(CatalogCur, sender, id))

CatalogReactivateProduct(S, P) ==
    \E sender \in S, id \in P :
        /\ getProductAuditCount(CatalogCur, id) < MaxAudits
        /\ CatalogCommit([Call("reactivateProduct", sender) EXCEPT
                            !.productId = id],
                         catalogReactivateProduct(CatalogCur, sender, id))

\* ========================================================= specifications
\* Deployment: the deployer is the owner.
Init == Start(constructor(Owner))

\* ---- role registry
RoleSenders == {Owner, "alice"}
RoleAccounts == {ZeroAddr, Owner, "alice"}

NextRoles ==
    \/ AddAdmin(RoleSenders, RoleAccounts)
    \/ AddDeliveryMan(RoleSenders, RoleAccounts)
    \/ AssignRole(RoleSenders, RoleAccounts, Role)

SpecRoles == Init /\ [][NextRoles]_vars

\* ---- catalog and purchases
Quantities == 0 .. 2
Values == {0, 2, 3, 4}
Buyers == {"alice", "bob"}

NextBuy ==
    \/ AddProduct({Owner, "alice"}, {1}, ProductConfigs)
    \/ DeactivateProduct({Owner}, {1})
    \/ ReactivateProduct({Owner}, {1})
    \/ Buy(Buyers, ProductIds, Quantities, Values)
    \/ PayWithMetamask(Buyers, OrderIds, {1}, {0, 2, 3})

SpecBuy == Init /\ [][NextBuy]_vars

\* ---- delivery
\* A shop in business: the owner has made carol a delivery man and listed
\* product 1 (individual boxes at 2 wei, 2 in stock); alice has paid for one
\* box through the legacy path (order 1) and bob has bought the other
\* (order 2).
Shop ==
    LET s1 == addDeliveryMan(constructor(Owner), Owner, "carol").st
        s2 == addProduct(s1, Owner, 1, BoxOnly).st
        s3 == paywithMetamask(s2, "alice", 1, 1, 2).st
    IN buy(s3, "bob", 1, FALSE, 1, "DHL-123", 2).st

InitShop == Start(Shop)

DeliverySenders == {Owner, "carol", "alice"}

NextDelivery ==
    \/ MarkOutForDelivery(DeliverySenders, OrderIds)
    \/ SubmitProof(DeliverySenders, OrderIds, Proofs)
    \/ ConfirmDelivery(DeliverySenders, OrderIds)
    \/ DeliveryAddStatus(DeliverySenders, {2}, OrderStatus, Proofs)

SpecDelivery == InitShop /\ [][NextDelivery]_vars

\* ---- refunds
\* The same shop after order 1 was delivered and confirmed.
ShopDelivered ==
    LET s1 == markOutForDelivery(Shop, Owner, 1, "DHL-123").st
        s2 == submitProof(s1, "carol", 1, "ipfs://proof").st
    IN confirmDelivery(s2, Owner, 1).st

InitRefund == Start(ShopDelivered)

Amounts == 0 .. 3

\* ---- what the recipient of a payout does
\* The calls a receive hook is tried with: every function with every argument
\* of the small sets; a payout made from inside a hook goes to a recipient
\* that accepts or rejects.
HookCalls ==
    {[fn |-> f, account |-> a] :
        f \in {"addAdmin", "addDeliveryMan"}, a \in Addr}
    \cup {[fn |-> "assignRole", account |-> a, role |-> r] :
            a \in Addr, r \in Role}
    \cup {[fn |-> f, user |-> a, profileHash |-> h] :
            f \in {"registerUser", "updateUserProfile"}, a \in Addr,
            h \in {1, 2}}
    \cup {[fn |-> f, user |-> a] :
            f \in {"deactivateUser", "reactivateUser"}, a \in Addr}
    \cup {[fn |-> "addProduct", id |-> i, config |-> c] :
            i \in ProductIds, c \in ProductConfigs}
    \cup {[fn |-> f, id |-> i] :
            f \in {"deactivateProduct", "reactivateProduct"},
            i \in ProductIds}
    \cup {[fn |-> "addToCart", productId |-> i, quantity |-> q] :
            i \in ProductIds, q \in Quantities}
    \cup {[fn |-> "addToCartV2", productId |-> i, quantity |-> q,
           isSet |-> b] :
            i \in ProductIds, q \in Quantities, b \in BOOLEAN}
    \cup {[fn |-> "removeFromCart", index |-> x] : x \in 0 .. MaxCartLen}
    \cup {[fn |-> "clearCart"]}
    \cup {[fn |-> "buy", productId |-> i, isSet |-> b, qty |-> q,
           deliveryId |-> d, value |-> v] :
            i \in ProductIds, b \in BOOLEAN, q \in Quantities,
            d \in DeliveryIds, v \in Values}
    \cup {[fn |-> "markOutForDelivery", orderId |-> o, deliveryId |-> d] :
            o \in OrderIds, d \in DeliveryIds}
    \cup {[fn |-> "submitProof", orderId |-> o, proofImage |-> x] :
            o \in OrderIds, x \in Proofs}
    \cup {[fn |-> f, orderId |-> o] :
            f \in {"confirmDelivery", "approveFullRefund"}, o \in OrderIds}
    \cup {[fn |-> "assignDeliveryManToOrder", orderId |-> o,
           deliveryMan |-> a] :
            o \in OrderIds, a \in Addr}
    \cup {[fn |-> f, orderId |-> o, status |-> t, note |-> n,
           proofImage |-> x] :
            f \in {"deliveryAddStatus", "deliveryUpdateStatus"},
            o \in OrderIds, t \in OrderStatus, n \in Notes, x \in Proofs}
    \cup {[fn |-> "openRefund", orderId |-> o, rType |-> t, amount |-> m] :
            o \in OrderIds, t \in RefundType, m \in Amounts}
    \cup {[fn |-> "approveRefund", refundId |-> i] : i \in RefundIds}
    \cup {[fn |-> "payRefund", refundId |-> i, recv |-> h] :
            i \in RefundIds, h \in {Accept, Reject}}
    \cup {[fn |-> "paywithMetamask", orderId |-> o, productId |-> i,
           value |-> v] :
            o \in OrderIds, i \in ProductIds, v \in Values}
    \cup {[fn |-> "approvePartialRefund", orderId |-> o,
           refundAmount |-> m] :
            o \in OrderIds, m \in Amounts}
    \cup {[fn |-> "claimRefund", orderId |-> o, recv |-> h] :
            o \in OrderIds, h \in {Accept, Reject}}
    \cup {[fn |-> "withdraw", to |-> a, amount |-> m, recv |-> x] :
            a \in Addr, m \in Amounts, x \in {"accept", "reject"}}
    \cup {[fn |-> "receive", value |-> v] : v \in Values}

\* The recipient accepts, rejects, or makes one call and accepts.
Recv == {Accept, Reject} \cup {Hook(c) : c \in HookCalls}

\* The recipient calls the paying function again, on the same ticket or order.
PayAgain(refundId) ==
    Hook([fn |-> "payRefund", refundId |-> refundId, recv |-> Accept])

ClaimAgain(orderId) ==
    Hook([fn |-> "claimRefund", orderId |-> orderId, recv |-> Accept])

RefundSenders == {Owner, "alice", "bob"}

NextRefund ==
    \/ OpenRefund(RefundSenders, {1, 2}, RefundType, Amounts)
    \/ ApproveRefund(RefundSenders, RefundIds)
    \/ PayRefund(RefundSenders, RefundIds, {Accept, Reject})
    \/ ApprovePartialRefund(RefundSenders, {1, 2}, Amounts)
    \/ ApproveFullRefund(RefundSenders, {1, 2})
    \/ ClaimRefund(RefundSenders, {1, 2}, {Accept, Reject})
    \/ Withdraw(RefundSenders, {Owner}, {3})

SpecRefund == InitRefund /\ [][NextRefund]_vars

\* ---- authorization
\* Every function behind onlyOwner, onlyAdmin or onlyDeliveryOrAdmin; bob has
\* been made an admin by the owner.  The three role functions are called by
\* everyone but the owner (what they do when they succeed is SpecRoles'
\* subject), the rest by the owner (an admin), by carol (a delivery man) and
\* by alice (a buyer).  openRefund supplies the ticket.
ShopWithAdmin == addAdmin(Shop, Owner, "bob").st

InitAuth == Start(ShopWithAdmin)

AuthSenders == {Owner, "carol", "alice"}
NotOwner == {"bob", "carol", "alice"}
NotAdmin == {"carol", "alice"}

NextAuth ==
    \/ AddAdmin(NotOwner, {"alice"})
    \/ AddDeliveryMan(NotAdmin, {"alice"})
    \/ AssignRole(NotAdmin, {"alice"}, {"Admin"})
    \/ AddProduct(AuthSenders, {2}, {SetOnly})
    \/ DeactivateProduct(AuthSenders, {1})
    \/ ReactivateProduct(AuthSenders, {1})
    \/ MarkOutForDelivery(AuthSenders, {1})
    \/ SubmitProof(AuthSenders, {1}, {"ipfs://proof"})
    \/ ConfirmDelivery(AuthSenders, {1})
    \/ AssignDeliveryManToOrder(AuthSenders, {1}, {"carol"})
    \/ DeliveryAddStatus(AuthSenders, {2}, {"OutForDelivery"}, {""})
    \/ DeliveryUpdateStatus(AuthSenders, {2}, {"OutForDelivery"}, {""})
    \/ OpenRefund({"alice"}, {1}, {"Full"}, {2})
    \/ ApproveRefund(AuthSenders, {1})
    \/ PayRefund(AuthSenders, {1}, {Accept})
    \/ ApprovePartialRefund(AuthSenders, {1}, {1})
    \/ ApproveFullRefund(AuthSenders, {1})
    \/ Withdraw(AuthSenders, {Owner}, {4})

SpecAuth == InitAuth /\ [][NextAuth]_vars

\* ---- payouts to a recipient that calls back
\* The owner, an admin, is a customer too: the owner has paid for order 1 and
\* alice for order 2, both through the legacy path, and both orders were
\* delivered and confirmed.  A ticket of the owner's is paid out to an account
\* that passes onlyAdmin when it calls back.
Delivered(st, orderId) ==
    LET s1 == markOutForDelivery(st, Owner, orderId, "DHL-123").st
        s2 == submitProof(s1, Owner, orderId, "ipfs://proof").st
    IN confirmDelivery(s2, Owner, orderId).st

ShopOwnerBuys ==
    LET s1 == addProduct(constructor(Owner), Owner, 1, BoxOnly).st
        s2 == paywithMetamask(s1, Owner, 1, 1, 2).st
        s3 == paywithMetamask(s2, "alice", 2, 1, 2).st
    IN Delivered(Delivered(s3, 1), 2)

InitReenter == Start(ShopOwnerBuys)

ReenterSenders == {Owner, "alice"}

\* The recipient accepts, rejects, or calls from its hook: the paying
\* function again, the other paying function, openRefund, or addToCart.
ReenterHooks ==
    {Accept, Reject}
    \cup {PayAgain(i) : i \in {1, 2}} \cup {ClaimAgain(o) : o \in {1, 2}}
    \cup {Hook([fn |-> "openRefund", orderId |-> o, rType |-> "Partial",
                amount |-> 1]) : o \in {1, 2}}
    \cup {Hook([fn |-> "addToCart", productId |-> 1, quantity |-> 1])}

NextReenter ==
    \/ OpenRefund(ReenterSenders, {1, 2}, {"Partial"}, {1})
    \/ ApproveRefund(ReenterSenders, RefundIds)
    \/ PayRefund(ReenterSenders, RefundIds, ReenterHooks)
    \/ ApproveFullRefund(ReenterSenders, {1, 2})
    \/ ClaimRefund(ReenterSenders, {1, 2}, ReenterHooks)

SpecReenter == InitReenter /\ [][NextReenter]_vars

\* ---- status overrides
\* The shop in business, with the delivery steps and both status overrides
\* applied to order 1, whose log starts empty (paywithMetamask writes none).
NextStatus ==
    \/ MarkOutForDelivery(DeliverySenders, {1})
    \/ SubmitProof(DeliverySenders, {1}, Proofs)
    \/ ConfirmDelivery(DeliverySenders, {1})
    \/ DeliveryAddStatus(DeliverySenders, {1}, OrderStatus, Proofs)
    \/ DeliveryUpdateStatus(DeliverySenders, {1}, OrderStatus, Proofs)

SpecStatus == InitShop /\ [][NextStatus]_vars

\* ---- catalog
\* The fresh contract; the owner adds products under ids of their choosing,
\* at most MaxProducts times, and switches them off and on, while a shopper
\* fills a cart and pays.
CatalogConfigs == {BoxOnly, SetOnly}
Shoppers == {"alice"}

NextCatalog ==
    \/ /\ productCount < MaxProducts
       /\ AddProduct({Owner}, ProductIds, CatalogConfigs)
    \/ DeactivateProduct({Owner}, ProductIds)
    \/ ReactivateProduct({Owner}, ProductIds)
    \/ AddToCart(Shoppers, ProductIds, {1})
    \/ AddToCartV2(Shoppers, ProductIds, {1})
    \/ Buy(Shoppers, ProductIds, {1}, {2, 3})
    \/ PayWithMetamask(Shoppers, {1}, ProductIds, {2})

SpecCatalog == Init /\ [][NextCatalog]_vars


\* ---- refund tickets
\* Product 1 has three boxes at 2 wei; alice has paid for one through the
\* legacy path (order 1) and it has been delivered and confirmed.  Buyers keep
\* paying through the legacy path under order id 0 and open tickets, which the
\* owner approves and pays.
BoxesOfThree == Config("Box", TRUE, FALSE, 2, 3, 0, 0, 0)

ShopLegacy ==
    LET s1 == addDeliveryMan(constructor(Owner), Owner, "carol").st
        s2 == addProduct(s1, Owner, 1, BoxesOfThree).st
        s3 == paywithMetamask(s2, "alice", 1, 1, 2).st
        s4 == markOutForDelivery(s3, Owner, 1, "DHL-123").st
        s5 == submitProof(s4, "carol", 1, "ipfs://proof").st
    IN confirmDelivery(s5, Owner, 1).st

InitTickets == Start(ShopLegacy)

TicketSenders == {Owner, "alice"}

NextTickets ==
    \/ PayWithMetamask(Buyers, {0}, {1}, {2})
    \/ OpenRefund(Buyers, {0, 1}, {"Full", "Partial"}, Amounts)
    \/ ApproveRefund(TicketSenders, RefundIds)
    \/ PayRefund(TicketSenders, RefundIds, {Accept, Reject})

SpecTickets == InitTickets /\ [][NextTickets]_vars

\* ---- carts
\* Product 1 sells boxes at 2 wei and sets at 3 wei; bob already has two sets
\* in his cart.  alice fills, edits and empties her cart and pays for single
\* boxes and sets, bob empties his, and the owner switches the product off
\* and on.
ShopCart ==
    LET s1 == addProduct(constructor(Owner), Owner, 1, BoxAndSet).st
    IN addToCartV2(s1, "bob", 1, 2, TRUE).st

InitCart == Start(ShopCart)

CartIndexes == 0 .. MaxCartLen

NextCart ==
    \/ AddToCart({"alice"}, {1}, {1, 2})
    \/ AddToCartV2({"alice"}, {1}, {1})
    \/ RemoveFromCart({"alice"}, CartIndexes)
    \/ ClearCart(Buyers)
    \/ DeactivateProduct({Owner}, {1})
    \/ ReactivateProduct({Owner}, {1})
    \/ Buy({"alice"}, {1}, {1}, {2, 3})

SpecCart == InitCart /\ [][NextCart]_vars

\* ---- delivery assignment
\* The shop in business: the owner assigns orders to accounts, gives alice the
\* delivery flag, takes carol's away, and moves order 1 along.
AssignAccounts == {"carol", "alice", ZeroAddr}

NextAssign ==
    \/ AssignDeliveryManToOrder(DeliverySenders, OrderIds, AssignAccounts)
    \/ AddDeliveryMan({Owner}, {"alice"})
    \/ AssignRole({Owner}, {"carol"}, {"Buyer"})
    \/ MarkOutForDelivery({Owner}, {1})
    \/ SubmitProof({"carol", "alice"}, {1}, Proofs)

SpecAssign == InitShop /\ [][NextAssign]_vars

\* ---- legacy refunds
\* The shop of SpecTickets; buyers keep paying under order id 0, the owner
\* approves partial and full refunds on the payment records, the buyers
\* claim them and send plain ether to the contract.
NextLegacy ==
    \/ PayWithMetamask(Buyers, {0}, {1}, {2})
    \/ ApprovePartialRefund(TicketSenders, {0, 1}, Amounts)
    \/ ApproveFullRefund(TicketSenders, {0, 1})
    \/ ClaimRefund(Buyers, {0, 1}, {Accept, Reject})
    \/ Receive(Buyers, {1})

SpecLegacy == InitTickets /\ [][NextLegacy]_vars

\* ---- catalog contract: updates and audit trail
\* The freshly deployed catalog contract; its admin and alice add, update,
\* deactivate and reactivate products 0 and 1, MaxAudits times per product.
\* NoStock enables boxes without stock, which this contract rejects; Deluxe
\* differs from BoxOnly in every field updateProduct writes.
NoStock == Config("Box", TRUE, FALSE, 2, 0, 0, 0, 0)
Deluxe ==
    [SetOnly EXCEPT !.name = "Deluxe", !.description = "six boxes",
                    !.priceWei = 5]
AuditConfigs == {BoxOnly, Deluxe, NoStock}

NextAudit ==
    \/ CatalogAddProduct({Owner, "alice"}, {0, 1}, AuditConfigs)
    \/ UpdateProduct({Owner, "alice"}, {0, 1}, AuditConfigs)
    \/ CatalogDeactivateProduct({Owner, "alice"}, {0, 1})
    \/ CatalogReactivateProduct({Owner, "alice"}, {0, 1})

SpecAudit == Init /\ [][NextAudit]_vars

\* ---- privilege escalation
\* From deployment: the owner, alice and bob call every function that writes
\* a role or a flag, for alice, bob and the owner, and every function that
\* writes a user, for bob, and alice and bob buy a box once the owner has
\* listed product 1.
Everyone == {Owner, "alice", "bob"}

NextEscalation ==
    \/ AddAdmin(Everyone, Everyone)
    \/ AddDeliveryMan(Everyone, Everyone)
    \/ AssignRole(Everyone, Everyone, {"Admin", "Delivery", "Buyer"})
    \/ RegisterUser(Everyone, {"bob"}, {1})
    \/ UpdateUserProfile(Everyone, {"bob"}, {2})
    \/ DeactivateUser(Everyone, {"bob"})
    \/ ReactivateUser(Everyone, {"bob"})
    \/ AddProduct(Everyone, {1}, {BoxOnly})
    \/ PayWithMetamask({"alice", "bob"}, {1}, {1}, {2})

SpecEscalation == Init /\ [][NextEscalation]_vars

\* ================================================================= claims
stockOf(p, isSet) == IF isSet THEN p.setStock ELSE p.individualStock

\* C1 (stock conservation): a successful buy lowers the stock counter of the
\* requested mode by exactly qty and leaves the other mode's counter as it
\* was; from every reachable storage a buy asking for more than the current
\* stock of its mode reverts with the storage unchanged; no stock counter is
\* ever negative.
C1_BuyDebits ==
    (lastCall'.op = "buy" /\ lastCall' # lastCall) =>
        LET id == lastCall'.productId
            m == lastCall'.isSet
        IN /\ stockOf(products'[id], m)
                = stockOf(products[id], m) - lastCall'.qty
           /\ stockOf(products'[id], ~m) = stockOf(products[id], ~m)
           /\ \A j \in ProductIds \ {id} :
                  /\ products'[j].individualStock = products[j].individualStock
                  /\ products'[j].setStock = products[j].setStock

C1_EveryBuy ==
    \A sender \in Buyers, id \in ProductIds, m \in BOOLEAN,
       qty \in Quantities, value \in Values :
        LET r == buy(Cur, sender, id, m, qty, "DHL-123", value)
        IN /\ qty > stockOf(products[id], m) => ~r.ok /\ r.st = Cur
           /\ r.ok =>
                /\ stockOf(r.st.products[id], m)
                     = stockOf(products[id], m) - qty
                /\ stockOf(r.st.products[id], ~m) = stockOf(products[id], ~m)

C1_StockNonNegative ==
    \A id \in ProductIds :
        products[id].individualStock >= 0 /\ products[id].setStock >= 0

C1_StockConservation ==
    /\ [](C1_EveryBuy /\ C1_StockNonNegative)
    /\ [][C1_BuyDebits]_vars

\* A set purchase went through on a product selling both modes; a further set
\* purchase would now overdraw the set stock, and it reverts.
C1_Witness ==
    /\ lastCall.op = "buy" /\ lastCall.isSet
    /\ products[1].enableIndividual
    /\ products[1].setStock = 0
    /\ products[1].individualStock > 0
    /\ buy(Cur, "alice", 1, TRUE, 1, "DHL-123", 3).err
         = "insufficient set stock"

\* C2 (payment exactness): from every reachable storage a buy whose msg.value
\* differs from unitPrice(mode) * qty, by less or by more, reverts, and
\* orderCount, the orders, the stock counters and the delivery logs (the whole
\* storage) are as before the call.
C2_PaymentExactness ==
    \A sender \in Buyers, id \in ProductIds, m \in BOOLEAN,
       qty \in Quantities, value \in Values :
        value # unitPrice(products[id], m) * qty =>
            LET r == buy(Cur, sender, id, m, qty, "DHL-123", value)
            IN /\ ~r.ok
               /\ r.st.orderCount = orderCount
               /\ r.st.orders = orders
               /\ r.st.products = products
               /\ r.st.deliveryLogs = deliveryLogs
               /\ r.st = Cur

\* After an earlier order, a buy that pays one wei too much and a buy that
\* pays too little both revert for the payment alone.
C2_Witness ==
    /\ orderCount > 0
    /\ products[1].individualStock > 0
    /\ buy(Cur, "bob", 1, FALSE, 1, "DHL-123", 3).err = "wrong payment"
    /\ buy(Cur, "bob", 1, FALSE, 1, "DHL-123", 0).err = "wrong payment"
    /\ buy(Cur, "bob", 1, FALSE, 1, "DHL-123", 2).ok

\* A payout has been made for the order: one of its tickets is Paid, or its
\* legacy payment record has refundClaimed set.
refundedOnce(orderId) ==
    \/ \E i \in RefundIds :
          /\ refunds[i].id # 0 /\ refunds[i].orderId = orderId
          /\ refunds[i].status = "Paid"
    \/ payments[orderId].refundClaimed

\* C3 (no double refund): once a ticket of an order is Paid, or the order's
\* legacy payment record has refundClaimed set, every further payout attempt,
\* payRefund on any ticket of that order or claimRefund on that order, reverts
\* and disburses nothing.
C3_NoDoubleRefund ==
    \A orderId \in OrderIds :
        refundedOnce(orderId) =>
            \A sender \in RefundSenders, recv \in Recv :
                /\ \A i \in RefundIds :
                     (refunds[i].id # 0 /\ refunds[i].orderId = orderId) =>
                        LET r == payRefund(Cur, sender, i, recv)
                        IN ~r.ok /\ r.st.balance = balance
                /\ LET r == claimRefund(Cur, sender, orderId, recv)
                   IN ~r.ok /\ r.st.balance = balance

\* C4 (role exclusivity): after any successful role assignment no account has
\* isAdmin and isDelivery both true; addAdmin clears the delivery flag and
\* addDeliveryMan clears the admin flag of the account it is given.
C4_RoleExclusivity ==
    /\ \A a \in Addr : ~(isAdmin(Cur, a) /\ isDelivery(Cur, a))
    /\ lastCall.op = "addAdmin" => ~isDelivery(Cur, lastCall.account)
    /\ lastCall.op = "addDeliveryMan" => ~isAdmin(Cur, lastCall.account)

\* The call reverted and the whole storage is as before it.
Denied(r) == ~r.ok /\ r.st = Cur

\* C5 (authorization gate): from every reachable storage, addAdmin called by
\* an account other than the owner, every onlyAdmin function called by an
\* account whose admin flag is false, and submitProof, deliveryAddStatus and
\* deliveryUpdateStatus called by an account that is neither admin nor
\* delivery man, revert and leave the whole storage unchanged.
C5_AuthorizationGate ==
    \A sender \in Senders :
        /\ sender # owner =>
             \A a \in Senders : Denied(addAdmin(Cur, sender, a))
        /\ ~admins[sender] =>
             /\ \A a \in {Owner, "alice"} :
                  /\ Denied(addDeliveryMan(Cur, sender, a))
                  /\ \A role \in Role : Denied(assignRole(Cur, sender, a, role))
                  /\ \A amount \in {0, 4} :
                       Denied(withdraw(Cur, sender, a, amount, "accept"))
             /\ \A id \in ProductIds :
                  /\ Denied(addProduct(Cur, sender, id, SetOnly))
                  /\ Denied(deactivateProduct(Cur, sender, id))
                  /\ Denied(reactivateProduct(Cur, sender, id))
             /\ \A orderId \in OrderIds :
                  /\ Denied(markOutForDelivery(Cur, sender, orderId, "DHL-123"))
                  /\ Denied(confirmDelivery(Cur, sender, orderId))
                  /\ Denied(assignDeliveryManToOrder(Cur, sender, orderId,
                                                     "carol"))
                  /\ Denied(approveFullRefund(Cur, sender, orderId))
                  /\ Denied(approvePartialRefund(Cur, sender, orderId, 1))
             /\ \A refundId \in RefundIds :
                  /\ Denied(approveRefund(Cur, sender, refundId))
                  /\ Denied(payRefund(Cur, sender, refundId, Accept))
        /\ (~admins[sender] /\ ~deliveryMen[sender]) =>
             \A orderId \in OrderIds :
                /\ \A proofImage \in Proofs :
                     Denied(submitProof(Cur, sender, orderId, proofImage))
                /\ \A status \in OrderStatus :
                     /\ Denied(deliveryAddStatus(Cur, sender, orderId, status,
                                                 "note", ""))
                     /\ Denied(deliveryUpdateStatus(Cur, sender, orderId,
                                                    status, "note", ""))

\* Order 1 awaits confirmation and its refund ticket is approved: the owner
\* could confirm the delivery and pay the ticket, the delivery man carol and
\* the buyer alice are turned away by onlyAdmin; bob, an admin but not the
\* owner, is turned away by onlyOwner; alice is turned away by
\* onlyDeliveryOrAdmin where carol passes.
C5_Witness ==
    /\ orders[1].status = "PendingConfirmation"
    /\ refunds[1].status = "Approved"
    /\ confirmDelivery(Cur, Owner, 1).ok
    /\ confirmDelivery(Cur, "carol", 1).err = "admin only"
    /\ payRefund(Cur, Owner, 1, Accept).ok
    /\ payRefund(Cur, "alice", 1, Accept).err = "admin only"
    /\ admins["bob"]
    /\ addAdmin(Cur, "bob", "alice").err = "owner only"
    /\ deliveryAddStatus(Cur, "carol", 2, "OutForDelivery", "note", "").ok
    /\ deliveryAddStatus(Cur, "alice", 2, "OutForDelivery", "note", "").err
         = "delivery/admin only"

\* The status each delivery step requires of the order.
requiredStatus(op) ==
    CASE op = "markOutForDelivery" -> "Paid"
      [] op = "submitProof" -> "OutForDelivery"
      [] op = "confirmDelivery" -> "PendingConfirmation"

\* The order's status, deliveryId, proofImage and delivery log are as before.
OrderUntouched(r, orderId) ==
    /\ r.st.orders[orderId] = orders[orderId]
    /\ r.st.deliveryLogs[orderId] = deliveryLogs[orderId]

LegalOnly(op, r, orderId) ==
    LET o == orders[orderId]
    IN /\ r.ok => o.id # 0 /\ o.status = requiredStatus(op)
       /\ (o.id = 0 \/ o.status # requiredStatus(op)) =>
            ~r.ok /\ OrderUntouched(r, orderId) /\ r.st = Cur

\* C6 (transition legality): markOutForDelivery succeeds only on an order whose
\* status is Paid, submitProof only on OutForDelivery, confirmDelivery only on
\* PendingConfirmation; in any other status, or on an order id that does not
\* exist, the call reverts and the order's status, deliveryId, proofImage and
\* delivery log are unchanged.
C6_EveryStep ==
    \A sender \in DeliverySenders, orderId \in OrderIds :
        /\ LegalOnly("markOutForDelivery",
                     markOutForDelivery(Cur, sender, orderId, "DHL-123"),
                     orderId)
        /\ \A proofImage \in Proofs :
             LegalOnly("submitProof",
                       submitProof(Cur, sender, orderId, proofImage), orderId)
        /\ LegalOnly("confirmDelivery",
                     confirmDelivery(Cur, sender, orderId), orderId)

C6_Steps ==
    (/\ lastCall' # lastCall
     /\ lastCall'.op \in {"markOutForDelivery", "submitProof",
                          "confirmDelivery"}) =>
        /\ orders[lastCall'.orderId].id # 0
        /\ orders[lastCall'.orderId].status = requiredStatus(lastCall'.op)

C6_TransitionLegality == [](C6_EveryStep) /\ [][C6_Steps]_vars

\* Order 1 has just been marked out for delivery: confirming it or marking it
\* again is refused for its status, the proof can be submitted, and order 0,
\* which does not exist, is refused as not found.
C6_Witness ==
    /\ lastCall.op = "markOutForDelivery" /\ lastCall.orderId = 1
    /\ orders[1].status = "OutForDelivery"
    /\ confirmDelivery(Cur, Owner, 1).err = "wrong state"
    /\ markOutForDelivery(Cur, Owner, 1, "DHL-123").err = "not paid"
    /\ submitProof(Cur, "carol", 1, "ipfs://proof").ok
    /\ markOutForDelivery(Cur, Owner, 0, "DHL-123").err = "order not found"

\* C7 (refund bound): openRefund(orderId, type, amount) reverts, creating no
\* ticket and leaving refundCount unchanged, whenever amount is 0, amount
\* exceeds order.paid, type is None, the caller is not the order's buyer, or
\* the order's status is neither Completed nor PendingConfirmation; a ticket
\* that is created is Open and within the bound.
C7_EveryOpen ==
    \A sender \in RefundSenders, orderId \in OrderIds, rType \in RefundType,
       amount \in Amounts :
        LET r == openRefund(Cur, sender, orderId, rType, amount)
            o == orders[orderId]
            bad == \/ amount = 0
                   \/ amount > o.paid
                   \/ rType = "None"
                   \/ sender # o.buyer
                   \/ o.status \notin {"Completed", "PendingConfirmation"}
        IN /\ bad => /\ ~r.ok
                     /\ r.st.refundCount = refundCount
                     /\ r.st.refunds = refunds
                     /\ r.st = Cur
           /\ r.ok => ~bad /\ r.ret = refundCount + 1

C7_Opens ==
    (lastCall'.op = "openRefund" /\ lastCall' # lastCall) =>
        LET t == refunds'[lastCall'.ret]
            o == orders[t.orderId]
        IN /\ refundCount' = refundCount + 1
           /\ lastCall'.ret = refundCount'
           /\ t.status = "Open" /\ t.rType # "None"
           /\ t.requester = o.buyer /\ t.requester = lastCall'.sender
           /\ t.amount > 0 /\ t.amount <= o.paid
           /\ o.status \in {"Completed", "PendingConfirmation"}
           /\ \A i \in RefundIds \ {lastCall'.ret} : refunds'[i] = refunds[i]

C7_RefundBound == [](C7_EveryOpen) /\ [][C7_Opens]_vars

\* alice has opened a ticket on her delivered order 1 (paid 2): asking for 3 or
\* for 0, a type of None, bob asking in her place, and bob asking on his own
\* order 2, still Paid, are each refused for that reason alone.
C7_Witness ==
    /\ lastCall.op = "openRefund" /\ refunds[1].status = "Open"
    /\ orders[1].paid = 2 /\ orders[2].status = "Paid"
    /\ openRefund(Cur, "alice", 1, "Full", 3).err = "bad amount"
    /\ openRefund(Cur, "alice", 1, "Partial", 0).err = "bad amount"
    /\ openRefund(Cur, "alice", 1, "None", 1).err = "invalid type"
    /\ openRefund(Cur, "bob", 1, "Full", 1).err = "not buyer"
    /\ openRefund(Cur, "bob", 2, "Full", 1).err = "not eligible"
    /\ openRefund(Cur, "alice", 1, "Full", 2).ok

\* C8 (monotonic order ids): the id a successful buy returns is greater than
\* the id the previous successful buy returned, whatever paywithMetamask
\* calls and failed buys came in between; a failed buy leaves orderCount
\* unchanged.
C8_BuyIds ==
    (lastCall'.op = "buy" /\ lastCall' # lastCall) =>
        /\ lastCall'.ret > lastBuyId
        /\ lastCall'.ret = orderCount + 1
        /\ orderCount' = lastCall'.ret
        /\ orders'[lastCall'.ret].id = lastCall'.ret
        /\ orders[lastCall'.ret].id = 0

C8_EveryBuy ==
    \A sender \in Buyers, id \in ProductIds, m \in BOOLEAN,
       qty \in Quantities, value \in Values :
        LET r == buy(Cur, sender, id, m, qty, "DHL-123", value)
        IN /\ ~r.ok => r.st.orderCount = orderCount
           /\ r.ok => r.ret > lastBuyId /\ r.st.orderCount = r.ret

C8_MonotonicOrderIds == [](C8_EveryBuy) /\ [][C8_BuyIds]_vars

\* A buy returned an id above 1 after a paywithMetamask call had stored an
\* order, and a buy that now fails would not move orderCount.
C8_Witness ==
    /\ lastCall.op = "buy" /\ lastCall.ret > 1
    /\ \E i \in OrderIds : payments[i].amountPaid > 0
    /\ ~buy(Cur, "alice", 1, FALSE, 0, "DHL-123", 0).ok

\* C9 (payout failure is all-or-nothing): when the transfer inside payRefund
\* fails, because the recipient rejects it or the contract's balance is below
\* the amount, the call reverts, the ticket is still Approved and the order
\* keeps its status; when the transfer inside claimRefund fails, refundClaimed
\* is still false and refundApproved keeps its value.
C9_PayoutAllOrNothing ==
    /\ \A sender \in RefundSenders, refundId \in RefundIds :
        \A recv \in {Accept, Reject, PayAgain(refundId)} :
        LET t == refunds[refundId]
            r == payRefund(Cur, sender, refundId, recv)
            pays == /\ admins[sender] /\ t.id # 0 /\ t.status = "Approved"
                    /\ orders[t.orderId].id # 0
            fails == ~recv.accept \/ balance < t.amount
        IN /\ r.xfer = "failed" <=> (pays /\ fails)
           /\ r.xfer = "failed" =>
                /\ ~r.ok
                /\ r.st.refunds[refundId].status = "Approved"
                /\ r.st.orders[t.orderId].status = orders[t.orderId].status
                /\ r.st = Cur
    /\ \A sender \in RefundSenders, orderId \in OrderIds :
        \A recv \in {Accept, Reject, ClaimAgain(orderId)} :
        LET p == payments[orderId]
            r == claimRefund(Cur, sender, orderId, recv)
            pays == /\ p.amountPaid > 0 /\ p.refundApproved > 0
                    /\ ~p.refundClaimed /\ sender = p.buyer
            fails == ~recv.accept \/ balance < p.refundApproved
        IN /\ r.xfer = "failed" <=> (pays /\ fails)
           /\ r.xfer = "failed" =>
                /\ ~r.ok
                /\ ~r.st.payments[orderId].refundClaimed
                /\ r.st.payments[orderId].refundApproved = p.refundApproved
                /\ r.st = Cur

\* After a withdrawal the balance is 1.  A ticket approved for 2 cannot be
\* paid for lack of funds, a ticket approved for 1 can be paid but not to a
\* recipient that rejects the ether, and alice's approved legacy refund of 2
\* cannot be claimed.
C9_Witness ==
    /\ lastCall.op = "withdraw" /\ balance = 1
    /\ \E i, j \in RefundIds :
        /\ refunds[i].status = "Approved" /\ refunds[i].amount = 2
        /\ payRefund(Cur, Owner, i, Accept).xfer = "failed"
        /\ refunds[j].status = "Approved" /\ refunds[j].amount = 1
        /\ payRefund(Cur, Owner, j, Reject).xfer = "failed"
        /\ payRefund(Cur, Owner, j, Accept).ok
    /\ payments[1].refundApproved = 2 /\ ~payments[1].refundClaimed
    /\ claimRefund(Cur, "alice", 1, Accept).xfer = "failed"

\* C10 (re-entrancy safety of payout): when the recipient of the transfer in
\* payRefund calls payRefund on the same ticket while the transfer is in
\* flight, or the recipient of the transfer in claimRefund calls claimRefund
\* on the same order, the nested call reverts; the outer call disburses the
\* amount once, and a ticket that is Paid or a record that is claimed is
\* never paid out again.
C10_EveryReentry ==
    /\ \A sender \in ReenterSenders, refundId \in RefundIds :
        LET r == payRefund(Cur, sender, refundId, PayAgain(refundId))
        IN /\ r.nested # "ok"
           /\ r.ok => /\ refunds[refundId].status = "Approved"
                      /\ r.nested = "not approved" \/ r.nested = "admin only"
                      /\ admins[refunds[refundId].requester]
                           => r.nested = "not approved"
                      /\ r.st.refunds[refundId].status = "Paid"
                      /\ r.st.balance = balance - refunds[refundId].amount
    /\ \A sender \in ReenterSenders, orderId \in OrderIds :
        LET r == claimRefund(Cur, sender, orderId, ClaimAgain(orderId))
        IN /\ r.nested # "ok"
           /\ r.ok => /\ ~payments[orderId].refundClaimed
                      /\ r.nested = "no refund"
                      /\ r.st.payments[orderId].refundClaimed
                      /\ r.st.balance
                           = balance - payments[orderId].refundApproved

C10_PaidOnce ==
    /\ \A i \in RefundIds :
         refunds[i].status = "Paid" => refunds'[i] = refunds[i]
    /\ \A i \in OrderIds :
         payments[i].refundClaimed => payments'[i] = payments[i]
    /\ lastCall' # lastCall =>
         /\ (\/ /\ lastCall'.op = "payRefund"
                /\ lastCall'.recv = PayAgain(lastCall'.refundId)
             \/ /\ lastCall'.op = "claimRefund"
                /\ lastCall'.recv = ClaimAgain(lastCall'.orderId)) =>
                /\ lastCall'.nested # "ok"
                /\ balance' = balance - lastCall'.value
         /\ lastCall'.op = "payRefund" =>
              /\ refunds[lastCall'.refundId].status = "Approved"
              /\ refunds'[lastCall'.refundId].status = "Paid"
         /\ lastCall'.op = "claimRefund" =>
              /\ ~payments[lastCall'.orderId].refundClaimed
              /\ payments'[lastCall'.orderId].refundClaimed

C10_ReentrancySafety == [](C10_EveryReentry) /\ [][C10_PaidOnce]_vars

\* The owner's ticket was paid to a recipient that called payRefund again as
\* the owner: the nested call got past onlyAdmin and was stopped by the
\* ticket's status, and the balance fell by the amount once.  alice, calling
\* claimRefund from inside her own claim, would find refundApproved at 0.
C10_Witness ==
    /\ lastCall.op = "payRefund" /\ lastCall.nested = "not approved"
    /\ refunds[lastCall.refundId].requester = Owner
    /\ refunds[lastCall.refundId].status = "Paid"
    /\ balance = 4 - lastCall.value
    /\ claimRefund(Cur, "alice", 2, ClaimAgain(2)).ok
    /\ claimRefund(Cur, "alice", 2, ClaimAgain(2)).nested = "no refund"

\* The record is a freshly paid order of buyer for qty units of product in
\* the given mode.
paidOrder(o, buyer, product, isSet, qty) ==
    /\ o.status = "Paid"
    /\ o.buyer = buyer
    /\ o.isSet = isSet /\ o.qty = qty /\ o.productId = product.id
    /\ o.paid = unitPrice(product, isSet) * qty

\* C11 (order payment invariant): every order record, created by buy or by
\* paywithMetamask, has at creation status Paid, the caller as buyer, and paid
\* equal to the unit price of its mode times its qty.
C11_EveryCreation ==
    /\ \A sender \in Buyers, id \in ProductIds, m \in BOOLEAN,
          qty \in Quantities, value \in Values :
        LET r == buy(Cur, sender, id, m, qty, "DHL-123", value)
        IN (r.ok /\ orderCount < MaxOrderId) =>
              /\ paidOrder(r.st.orders[r.ret], sender, products[id], m, qty)
              /\ r.st.orders[r.ret].paid = value
    /\ \A sender \in Buyers, orderId \in OrderIds, id \in ProductIds,
          value \in Values :
        LET r == paywithMetamask(Cur, sender, orderId, id, value)
        IN r.ok =>
              /\ paidOrder(r.st.orders[orderId], sender, products[id], FALSE, 1)
              /\ r.st.orders[orderId].paid = value

C11_Creations ==
    (/\ lastCall' # lastCall
     /\ lastCall'.op \in {"buy", "paywithMetamask"}) =>
        LET orderId == IF lastCall'.op = "buy" THEN lastCall'.ret
                       ELSE lastCall'.orderId
        IN /\ paidOrder(orders'[orderId], lastCall'.sender,
                        products[lastCall'.productId], lastCall'.isSet,
                        lastCall'.qty)
           /\ orders'[orderId].paid = lastCall'.value
           /\ balance' = balance + orders'[orderId].paid

C11_OrderPayment == [](C11_EveryCreation) /\ [][C11_Creations]_vars

\* A legacy payment has just stored an order paid at the individual price 2,
\* not at the product's list price 4, next to an order for a set bought
\* through buy at the set price 3.
C11_Witness ==
    /\ lastCall.op = "paywithMetamask"
    /\ products[1].priceWei = 4 /\ products[1].individualPriceWei = 2
    /\ paidOrder(orders[lastCall.orderId], lastCall.sender,
                 [products[1] EXCEPT !.individualStock = @ + 1], FALSE, 1)
    /\ orders[lastCall.orderId].paid = 2
    /\ \E i \in OrderIds :
         /\ orders[i].id # 0 /\ orders[i].isSet /\ orders[i].paid = 3
         /\ orders[i].status = "Paid" /\ orders[i].buyer \in Buyers

\* C12 (terminal states): once an order's status is Refunded or Cancelled, no
\* operation by any caller changes that order's status again.
C12_TerminalStates ==
    [][\A i \in OrderIds :
          orders[i].status \in {"Refunded", "Cancelled"} =>
              orders'[i].status = orders[i].status]_vars

\* Every order whose status the call changed, other than the caller's own, is
\* now OutForDelivery or PendingConfirmation.
DeliveryStatusesOnly(r, sender) ==
    r.ok =>
        \A i \in OrderIds :
            (/\ r.st.orders[i].status # orders[i].status
             /\ r.st.orders[i].buyer # sender) =>
                r.st.orders[i].status
                    \in {"OutForDelivery", "PendingConfirmation"}

\* C13 (delivery-man status restriction): a delivery man who is no admin can
\* set, through deliveryAddStatus and deliveryUpdateStatus, only the statuses
\* OutForDelivery and PendingConfirmation; any other requested status reverts
\* with the order and its log unchanged; and no call by an account that is
\* neither admin nor the order's buyer puts an order into Pending, Paid,
\* Completed, Refunded or Cancelled.
C13_EveryCall ==
    \A sender \in Senders :
        ~admins[sender] =>
            /\ \A orderId \in OrderIds, status \in OrderStatus,
                  proofImage \in Proofs :
                LET a == deliveryAddStatus(Cur, sender, orderId, status,
                                           "note", proofImage)
                    u == deliveryUpdateStatus(Cur, sender, orderId, status,
                                              "note", proofImage)
                IN /\ status \notin {"OutForDelivery", "PendingConfirmation"}
                        => /\ ~a.ok /\ ~u.ok
                           /\ a.st.orders[orderId] = orders[orderId]
                           /\ u.st.orders[orderId] = orders[orderId]
                           /\ a.st.deliveryLogs[orderId]
                                = deliveryLogs[orderId]
                           /\ u.st.deliveryLogs[orderId]
                                = deliveryLogs[orderId]
                           /\ a.st = Cur /\ u.st = Cur
                   /\ (a.ok \/ u.ok) => deliveryMen[sender]
                   /\ DeliveryStatusesOnly(a, sender)
                   /\ DeliveryStatusesOnly(u, sender)
                   /\ DeliveryStatusesOnly(
                          submitProof(Cur, sender, orderId, proofImage),
                          sender)
            /\ \A orderId \in OrderIds :
                /\ DeliveryStatusesOnly(
                       markOutForDelivery(Cur, sender, orderId, "DHL-123"),
                       sender)
                /\ DeliveryStatusesOnly(confirmDelivery(Cur, sender, orderId),
                                        sender)
                /\ DeliveryStatusesOnly(
                       claimRefund(Cur, sender, orderId, Accept), sender)
                /\ \A value \in Values :
                     DeliveryStatusesOnly(
                         paywithMetamask(Cur, sender, orderId, 1, value),
                         sender)
            /\ \A refundId \in RefundIds :
                 DeliveryStatusesOnly(payRefund(Cur, sender, refundId,
                                                Accept), sender)

C13_Steps ==
    (lastCall' # lastCall /\ ~admins[lastCall'.sender]) =>
        \A i \in OrderIds :
            (/\ orders'[i].status # orders[i].status
             /\ orders'[i].buyer # lastCall'.sender) =>
                /\ deliveryMen[lastCall'.sender]
                /\ orders'[i].status
                     \in {"OutForDelivery", "PendingConfirmation"}

C13_DeliveryManRestriction == [](C13_EveryCall) /\ [][C13_Steps]_vars

\* carol, a delivery man and no admin, has just set order 1 to OutForDelivery
\* through deliveryUpdateStatus; Cancelled, Completed and Paid are refused to
\* her for the status alone, and granted to the owner.
C13_Witness ==
    /\ lastCall.op = "deliveryUpdateStatus" /\ lastCall.sender = "carol"
    /\ deliveryMen["carol"] /\ ~admins["carol"]
    /\ orders[1].status = "OutForDelivery"
    /\ \A status \in {"Cancelled", "Completed", "Paid"} :
         /\ deliveryAddStatus(Cur, "carol", 1, status, "note", "").err
              = "admin only status"
         /\ deliveryAddStatus(Cur, Owner, 1, status, "note", "").ok
    /\ deliveryAddStatus(Cur, "carol", 1, "PendingConfirmation", "note",
                         "").ok

\* C14 (delivery log completeness): every change of an order's status, its
\* creation as Paid and its move to Refunded included, appends a log entry
\* carrying the new status, so every existing order has a non-empty log whose
\* last entry's status is the order's current status.
C14_LogCompleteness ==
    \A i \in OrderIds :
        orders[i].id # 0 =>
            /\ Len(deliveryLogs[i]) > 0
            /\ deliveryLogs[i][Len(deliveryLogs[i])].status = orders[i].status

\* log is an initial segment of longer.
IsPrefix(log, longer) ==
    /\ Len(longer) >= Len(log)
    /\ \A k \in 1 .. Len(log) : longer[k] = log[k]

\* After the call every order's log still begins with the log it had.
LogsKept(r) ==
    \A i \in OrderIds : IsPrefix(deliveryLogs[i], r.st.deliveryLogs[i])

\* C15 (delivery log is append-only): across any operation the delivery log of
\* each order keeps all its previous entries, unchanged and in the same order,
\* as a prefix; its length never decreases.
C15_EveryCall ==
    \A sender \in DeliverySenders, orderId \in OrderIds :
        /\ LogsKept(markOutForDelivery(Cur, sender, orderId, "DHL-123"))
        /\ LogsKept(confirmDelivery(Cur, sender, orderId))
        /\ LogsKept(claimRefund(Cur, sender, orderId, Accept))
        /\ LogsKept(paywithMetamask(Cur, sender, orderId, 1, 2))
        /\ LogsKept(buy(Cur, sender, 1, FALSE, 1, "DHL-123", 2))
        /\ \A proofImage \in Proofs :
             /\ LogsKept(submitProof(Cur, sender, orderId, proofImage))
             /\ \A status \in OrderStatus :
                  /\ LogsKept(deliveryAddStatus(Cur, sender, orderId, status,
                                                "note", proofImage))
                  /\ LogsKept(deliveryUpdateStatus(Cur, sender, orderId,
                                                   status, "note", proofImage))

C15_Steps ==
    \A i \in OrderIds :
        /\ IsPrefix(deliveryLogs[i], deliveryLogs'[i])
        /\ IsPrefix(getDeliveryHistory(Cur, i), deliveryLogs'[i])
        /\ Len(deliveryLogs'[i]) <= Len(deliveryLogs[i]) + 1

C15_LogAppendOnly == [](C15_EveryCall) /\ [][C15_Steps]_vars

\* Order 1 was marked out for delivery and its proof has just been submitted:
\* the history is the first entry followed by the new one.
C15_Witness ==
    /\ lastCall.op = "submitProof" /\ lastCall.orderId = 1
    /\ Len(getDeliveryHistory(Cur, 1)) = 2
    /\ getDeliveryHistory(Cur, 1)[1].note = "OUT_FOR_DELIVERY"
    /\ getDeliveryHistory(Cur, 1)[1].status = "OutForDelivery"
    /\ getDeliveryHistory(Cur, 1)[2].note = "PROOF_SUBMITTED"
    /\ getDeliveryHistory(Cur, 1)[2].status = "PendingConfirmation"

\* C16 (order records are permanent): once an order is stored under an id it is
\* never deleted or replaced, and its buyer, productId, isSet, qty and paid
\* never change.
C16_OrdersPermanent ==
    [][\A i \in OrderIds :
         orders[i] # NoOrder =>
             /\ orders'[i] # NoOrder
             /\ orders'[i].id = orders[i].id
             /\ orders'[i].buyer = orders[i].buyer
             /\ orders'[i].productId = orders[i].productId
             /\ orders'[i].isSet = orders[i].isSet
             /\ orders'[i].qty = orders[i].qty
             /\ orders'[i].paid = orders[i].paid]_vars

\* C17 (legacy order-id collision): paywithMetamask fails whenever an order or
\* a payment record is already stored under the order id, for every order id,
\* 0 included.
C17_OrderIdCollision ==
    \A orderId \in OrderIds :
        (orders[orderId] # NoOrder \/ payments[orderId] # NoPayment) =>
            \A sender \in Buyers, productId \in ProductIds, value \in Values :
                LET r == paywithMetamask(Cur, sender, orderId, productId,
                                         value)
                IN ~r.ok /\ r.st = Cur

\* The configuration rule on a product record or on addProduct's arguments.
validConfig(p) ==
    /\ p.enableIndividual \/ p.enableSet
    /\ p.enableIndividual => p.individualPriceWei > 0
    /\ ~p.enableIndividual => p.individualPriceWei = 0 /\ p.individualStock = 0
    /\ p.enableSet => p.setPriceWei > 0
    /\ ~p.enableSet => p.setPriceWei = 0 /\ p.setStock = 0

\* Every combination of modes, prices, stocks and names an admin can submit.
ConfigSpace ==
    {Config(name, eI, eS, iP, iS, sP, sS, sB) :
        name \in {"", "Box"}, eI \in BOOLEAN, eS \in BOOLEAN, iP \in {0, 2},
        iS \in {0, 2}, sP \in {0, 3}, sS \in {0, 1}, sB \in {0, 6}}

\* C18 (product configuration invariant): every stored product has at least one
\* of enableIndividual / enableSet true, each enabled mode has price > 0, each
\* disabled mode has price 0 and stock 0; addProduct with an empty name or a
\* configuration violating this fails and stores nothing.
C18_ProductConfiguration ==
    /\ \A id \in ProductIds :
         products[id] # NoProduct => validConfig(products[id])
    /\ \A id \in ProductIds, c \in ConfigSpace :
         LET r == addProduct(Cur, Owner, id, c)
         IN /\ (Len(c.name) = 0 \/ ~validConfig(c)) => ~r.ok /\ r.st = Cur
            /\ r.ok => validConfig(r.st.products[id])

\* A set-only product was just stored with its individual price and stock 0,
\* and adding another product with stock on a disabled mode is rejected.
C18_Witness ==
    /\ lastCall.op = "addProduct" /\ lastCall.productId = 1
    /\ products[1].id = 1
    /\ ~products[1].enableIndividual /\ products[1].enableSet
    /\ products[1].individualPriceWei = 0 /\ products[1].individualStock = 0
    /\ products[1].setPriceWei = 3
    /\ addProduct(Cur, Owner, 2, Config("Box", TRUE, FALSE, 2, 2, 0, 1, 0)).err
         = "Set stock must be 0"
    /\ addProduct(Cur, Owner, 2, Config("", TRUE, FALSE, 2, 2, 0, 0, 0)).err
         = "name required"

\* ids under which a product record is stored
catalog == {id \in ProductIds : products[id] # NoProduct}

\* C19 (sequential product ids): after n successful addProduct calls the
\* catalog holds exactly the products with ids 1..n, productCount is n, and
\* nothing is stored under id 0.
C19_SequentialIds ==
    /\ catalog = 1 .. productCount
    /\ products[0] = NoProduct

\* The call failed and left storage and balance as they were.
Refused(r) == ~r.ok /\ r.st = Cur

\* C20 (inactive products cannot be sold): from a successful deactivateProduct
\* until the next successful reactivateProduct, every buy, paywithMetamask,
\* addToCart and addToCartV2 naming the product fails and its stock counters
\* do not change; deactivateProduct and reactivateProduct fail on an id that
\* does not exist and on success change only the product's status.
C20_InactiveRefused ==
    \A id \in ProductIds :
        products[id].status = "Inactive" =>
            \A sender \in Senders, qty \in Quantities, value \in Values :
                /\ Refused(addToCart(Cur, sender, id, qty))
                /\ \A isSet \in BOOLEAN :
                     /\ Refused(addToCartV2(Cur, sender, id, qty, isSet))
                     /\ Refused(buy(Cur, sender, id, isSet, qty, "DHL-123",
                                    value))
                /\ \A orderId \in OrderIds :
                     Refused(paywithMetamask(Cur, sender, orderId, id, value))

C20_Switch ==
    \A id \in ProductIds :
        LET off == deactivateProduct(Cur, Owner, id)
            on == reactivateProduct(Cur, Owner, id)
        IN /\ products[id].id = 0 => Refused(off) /\ Refused(on)
           /\ off.ok =>
                off.st = [Cur EXCEPT !.products[id].status = "Inactive"]
           /\ on.ok => on.st = [Cur EXCEPT !.products[id].status = "Active"]

C20_Steps ==
    \A id \in ProductIds :
        /\ (lastCall'.op = "deactivateProduct" /\ lastCall'.productId = id)
             => products'[id].status = "Inactive"
        /\ (products[id].status = "Inactive"
              /\ products'[id].status # "Inactive")
             => lastCall'.op = "reactivateProduct" /\ lastCall'.productId = id
        /\ products[id].status = "Inactive" =>
             /\ products'[id].individualStock = products[id].individualStock
             /\ products'[id].setStock = products[id].setStock
        /\ lastCall'.op \in {"deactivateProduct", "reactivateProduct"} =>
             /\ \A other \in ProductIds \ {lastCall'.productId} :
                  products'[other] = products[other]
             /\ products'[lastCall'.productId] =
                  [products[lastCall'.productId] EXCEPT
                     !.status = products'[lastCall'.productId].status]
             /\ carts' = carts /\ orders' = orders /\ balance' = balance

C20_InactiveNotSold ==
    [](C20_InactiveRefused /\ C20_Switch) /\ [][C20_Steps]_vars

\* Product 1 was put in the cart while active and has just been deactivated
\* with both boxes in stock: paying for it and adding it to the cart fail.
C20_Witness ==
    /\ lastCall.op = "deactivateProduct" /\ lastCall.productId = 1
    /\ products[1].status = "Inactive" /\ products[1].individualStock = 2
    /\ Len(getCart(Cur, "alice")) = 1
    /\ buy(Cur, "alice", 1, FALSE, 1, "DHL-123", 2).err = "inactive product"
    /\ paywithMetamask(Cur, "alice", 2, 1, 2).err = "inactive product"
    /\ addToCart(Cur, "alice", 1, 1).err = "inactive product"
    /\ addToCartV2(Cur, "alice", 1, 1, FALSE).err = "inactive product"
    /\ deactivateProduct(Cur, Owner, 2).err = "Product not found"

\* The ticket references an existing order, was requested by its buyer and
\* asks for no more than was paid.
validTicket(t, st) ==
    LET o == st.orders[t.orderId]
    IN /\ o.id # 0 /\ o # NoOrder
       /\ t.requester = o.buyer
       /\ 0 < t.amount /\ t.amount <= o.paid

\* C21 (refund ticket invariant): every ticket ever created satisfies, in every
\* reachable state, 0 < amount <= paid of the order it references, requester
\* equal to that order's buyer, and a referenced order that exists.
C21_TicketInvariant ==
    /\ \A f \in RefundIds : refunds[f] # NoRefund => validTicket(refunds[f], Cur)
    /\ \A sender \in Senders, orderId \in OrderIds, amount \in Amounts,
          rType \in RefundType :
         LET r == openRefund(Cur, sender, orderId, rType, amount)
         IN r.ok =>
              /\ r.ret = refundCount + 1
              /\ r.ret \in RefundIds => validTicket(r.st.refunds[r.ret], r.st)
              /\ validTicket([orderId |-> orderId, requester |-> sender,
                              amount |-> amount], Cur)

\* Ticket 1 asks for 1 of the 2 wei alice paid for order 1 and has been paid
\* out, while another buyer holds the record under order id 0.
C21_Witness ==
    /\ refunds[1].id = 1 /\ refunds[1].orderId = 1
    /\ refunds[1].requester = "alice" /\ refunds[1].amount = 1
    /\ refunds[1].status = "Paid"
    /\ orders[1].buyer = "alice" /\ orders[1].paid = 2
    /\ orders[0].buyer = "bob"
    /\ ~openRefund(Cur, "bob", 0, "Full", 2).ok

\* C22 (refund ticket lifecycle): a ticket's status only moves Open -> Approved
\* (approveRefund by an admin, only from Open) -> Paid (payRefund by an admin,
\* only from Approved); it never moves backwards or skips Approved, and a
\* successful payRefund sets the linked order's status to Refunded and
\* transfers exactly the ticket's amount to the ticket's requester: the
\* ether it sends goes to t.requester, whoever the caller is, it is t.amount,
\* and the contract's balance falls by as much.
C22_EveryCall ==
    \A sender \in Senders, f \in RefundIds, recv \in {Accept, Reject} :
        LET t == refunds[f]
            a == approveRefund(Cur, sender, f)
            p == payRefund(Cur, sender, f, recv)
        IN /\ a.ok <=> (admins[sender] /\ t.id # 0 /\ t.status = "Open")
           /\ a.ok => a.st = [Cur EXCEPT !.refunds[f].status = "Approved"]
           /\ ~a.ok => a.st = Cur
           /\ p.ok => /\ admins[sender] /\ t.id # 0 /\ t.status = "Approved"
                      /\ p.xfer = "ok"
                      /\ p.payee = t.requester /\ p.sent = t.amount
                      /\ p.st = [Cur EXCEPT
                                   !.refunds[f].status = "Paid",
                                   !.orders[t.orderId].status = "Refunded",
                                   !.balance = @ - t.amount]
           /\ ~p.ok => p.st = Cur /\ p.sent = 0

C22_Steps ==
    \A f \in RefundIds :
        LET t == refunds[f]
            moved == refunds'[f].status # t.status
            byAdmin == /\ lastCall'.refundId = f
                       /\ admins[lastCall'.sender]
        IN /\ refunds'[f].status # "Rejected"
           /\ (moved /\ t.status = "Open") =>
                /\ refunds'[f].status = "Approved"
                /\ lastCall'.op = "approveRefund" /\ byAdmin
           /\ (moved /\ t.status = "Approved") =>
                /\ refunds'[f].status = "Paid"
                /\ lastCall'.op = "payRefund" /\ byAdmin
                /\ lastCall'.xfer = "ok"
                /\ lastCall'.payee = t.requester
                /\ lastCall'.sent = t.amount
                /\ orders'[t.orderId].status = "Refunded"
                /\ balance' = balance - t.amount
           /\ t.status = "Paid" => ~moved
           /\ (t.id = 0 /\ refunds'[f].id # 0) =>
                lastCall'.op = "openRefund" /\ refunds'[f].status = "Open"
           /\ t.id # 0 => refunds'[f] = [t EXCEPT !.status = refunds'[f].status]

C22_TicketLifecycle == [](C22_EveryCall) /\ [][C22_Steps]_vars

\* Ticket 1, for 1 wei of order 1, went through approval and has just been
\* paid from a balance of 2, by an admin who is not its requester: the wei
\* went to the requester, the order is Refunded, 1 wei is left, and the
\* ticket can be neither approved nor paid again.
C22_Witness ==
    /\ lastCall.op = "payRefund" /\ lastCall.refundId = 1
    /\ lastCall.xfer = "ok"
    /\ lastCall.payee = refunds[1].requester /\ lastCall.sent = 1
    /\ lastCall.sender # refunds[1].requester
    /\ refunds[1].status = "Paid" /\ refunds[1].amount = 1
    /\ orders[refunds[1].orderId].status = "Refunded"
    /\ orders[0] = NoOrder /\ refunds[2].status # "Paid" /\ balance = 1
    /\ approveRefund(Cur, Owner, 1).err = "not open"
    /\ payRefund(Cur, Owner, 1, Accept).err = "not approved"

\* C23 (role flags follow the assigned role): after a successful
\* assignRole(account, role), for every role value, isAdmin(account) is true
\* exactly when role is Admin and isDelivery(account) is true exactly when role
\* is Delivery.
C23_FlagsFollowRole ==
    lastCall.op = "assignRole" =>
        /\ isAdmin(Cur, lastCall.account) <=> roles[lastCall.account] = "Admin"
        /\ isDelivery(Cur, lastCall.account)
             <=> roles[lastCall.account] = "Delivery"

\* Whatever the call did, it did to the caller's own cart.
OwnCartOnly(r, sender) ==
    r.st = [Cur EXCEPT !.carts[sender] = r.st.carts[sender]]

CartOps == {"addToCart", "addToCartV2", "removeFromCart", "clearCart"}

\* C24 (cart operations are local): addToCart / addToCartV2, removeFromCart and
\* clearCart change only the caller's own cart; every other account's cart,
\* every product's stock and status, every order, every ticket and the
\* contract balance stay as they were.
C24_EveryCall ==
    \A sender \in Senders :
        /\ OwnCartOnly(clearCart(Cur, sender), sender)
        /\ \A index \in CartIndexes :
             OwnCartOnly(removeFromCart(Cur, sender, index), sender)
        /\ \A productId \in ProductIds, quantity \in Quantities :
             /\ OwnCartOnly(addToCart(Cur, sender, productId, quantity),
                            sender)
             /\ \A isSet \in BOOLEAN :
                  OwnCartOnly(addToCartV2(Cur, sender, productId, quantity,
                                          isSet), sender)

C24_Steps ==
    lastCall'.op \in CartOps =>
        /\ \A a \in Addr \ {lastCall'.sender} : carts'[a] = carts[a]
        /\ products' = products /\ orders' = orders /\ refunds' = refunds
        /\ productInventoryStatus' = productInventoryStatus
        /\ payments' = payments /\ deliveryLogs' = deliveryLogs
        /\ balance' = balance /\ productCount' = productCount
        /\ orderCount' = orderCount

C24_CartLocal == [](C24_EveryCall) /\ [][C24_Steps]_vars

\* alice has just emptied her cart while bob's two sets are still in his, an
\* order exists and the contract holds its payment.
C24_Witness ==
    /\ lastCall.op = "clearCart" /\ lastCall.sender = "alice"
    /\ getCart(Cur, "alice") = <<>>
    /\ getCart(Cur, "bob") =
         <<[productId |-> 1, quantity |-> 2, isSet |-> TRUE]>>
    /\ orders[1].buyer = "alice" /\ balance = 2
    /\ products[1].individualStock = 1

\* C25 (cart item validity): in every reachable state every item in every cart
\* has quantity > 0 and references a product that exists, is Active, and has
\* the item's mode enabled.
C25_CartItemsValid ==
    \A a \in Addr :
        \A k \in 1 .. Len(getCart(Cur, a)) :
            LET item == getCart(Cur, a)[k]
                p == products[item.productId]
            IN /\ item.quantity > 0
               /\ p.id # 0
               /\ p.status = "Active"
               /\ IF item.isSet THEN p.enableSet ELSE p.enableIndividual

\* C26 (cart is cleared on checkout): after a buyer's successful buy that
\* buyer's cart is empty; it is also empty after clearCart.
C26_ClearedOnCheckout ==
    /\ lastCall.op = "buy" => getCart(Cur, lastCall.sender) = <<>>
    /\ lastCall.op = "clearCart" => getCart(Cur, lastCall.sender) = <<>>

\* C27 (removeFromCart is swap-and-pop; addToCartV2 appends): for index <
\* length the caller's cart gets shorter by exactly one, the element that was at
\* index is the one removed, the former last element sits at index when index
\* was not the last position, and all other positions are unchanged; for
\* index >= length it fails and the cart is unchanged.  addToCartV2 appends a
\* new item at the end without merging it with an existing line.
C27_Remove ==
    \A sender \in Buyers, index \in CartIndexes :
        LET cart == getCart(Cur, sender)
            n == Len(cart)
            r == removeFromCart(Cur, sender, index)
            after == getCart(r.st, sender)
        IN /\ r.ok <=> index < n
           /\ ~r.ok => r.st = Cur /\ r.err = "bad index"
           /\ r.ok =>
                /\ Len(after) = n - 1
                /\ index < n - 1 => after[index + 1] = cart[n]
                /\ \A k \in 1 .. n - 1 : k # index + 1 => after[k] = cart[k]

C27_Append ==
    \A sender \in Buyers, quantity \in Quantities, isSet \in BOOLEAN :
        LET cart == getCart(Cur, sender)
            r == addToCartV2(Cur, sender, 1, quantity, isSet)
        IN r.ok =>
             getCart(r.st, sender) =
                 cart \o <<[productId |-> 1, quantity |-> quantity,
                            isSet |-> isSet]>>

C27_Steps ==
    /\ lastCall'.op = "removeFromCart" =>
         LET cart == carts[lastCall'.sender]
         IN /\ lastCall'.value < Len(cart)
            /\ carts'[lastCall'.sender] = swapAndPop(cart, lastCall'.value)
            /\ Len(carts'[lastCall'.sender]) = Len(cart) - 1
    /\ lastCall'.op \in {"addToCart", "addToCartV2"} =>
         LET cart == carts[lastCall'.sender]
         IN /\ Len(carts'[lastCall'.sender]) = Len(cart) + 1
            /\ SubSeq(carts'[lastCall'.sender], 1, Len(cart)) = cart

C27_SwapAndPop == [](C27_Remove /\ C27_Append) /\ [][C27_Steps]_vars

\* alice's cart held three lines; removing position 0 has just put the former
\* last line (one set) first and left the middle one (two boxes) in place.
C27_Witness ==
    /\ lastCall.op = "removeFromCart" /\ lastCall.value = 0
    /\ getCart(Cur, "alice") =
         <<[productId |-> 1, quantity |-> 1, isSet |-> TRUE],
           [productId |-> 1, quantity |-> 2, isSet |-> FALSE]>>
    /\ removeFromCart(Cur, "alice", 2).err = "bad index"
    /\ removeFromCart(Cur, "owner", 0).err = "bad index"
    /\ Len(getCart(addToCartV2(Cur, "alice", 1, 2, FALSE).st, "alice")) = 3

\* The amount of one cart line: the price of its mode times its quantity.
lineAmount(item) ==
    unitPrice(products[item.productId], item.isSet) * item.quantity

RECURSIVE sumLines(_)
sumLines(cart) ==
    IF cart = <<>> THEN 0 ELSE lineAmount(Head(cart)) + sumLines(Tail(cart))

\* C28 (cart total agrees with the purchase price): for every cart,
\* getCartTotal(buyer) is the sum over its items of unitPrice(mode) * quantity,
\* and for every item this amount is productPrice(productId, isSet, quantity),
\* the payment buy demands for that item.
C28_CartTotal ==
    \A buyer \in Addr :
        LET cart == getCart(Cur, buyer)
        IN /\ getCartTotal(Cur, buyer) = sumLines(cart)
           /\ \A k \in 1 .. Len(cart) :
                LET item == cart[k]
                    price == productPrice(Cur, item.productId, item.isSet,
                                          item.quantity)
                    paying == buy([Cur EXCEPT
                                     !.products[item.productId].status =
                                         "Active"],
                                  buyer, item.productId, item.isSet,
                                  item.quantity, "DHL-123", lineAmount(item))
                IN /\ products[item.productId].id # 0
                   /\ price.ok /\ price.ret = lineAmount(item)
                   /\ paying.err \notin {"wrong payment", "price missing"}

\* alice's cart lists two boxes and one set of product 1: 2 * 2 + 3 = 7 wei.
C28_Witness ==
    /\ Len(getCart(Cur, "alice")) = 2
    /\ getCart(Cur, "alice")[1] =
         [productId |-> 1, quantity |-> 2, isSet |-> FALSE]
    /\ getCart(Cur, "alice")[2] =
         [productId |-> 1, quantity |-> 1, isSet |-> TRUE]
    /\ getCartTotal(Cur, "alice") = 7
    /\ getCartTotal(Cur, "bob") = 6
    /\ productPrice(Cur, 1, FALSE, 2).ret = 4
    /\ productPrice(Cur, 1, TRUE, 1).ret = 3

\* C29 (submitProof requires a proof): submitProof with an empty proofImage
\* fails, so an order that reached PendingConfirmation through submitProof has
\* a non-empty proofImage.
C29_ProofRequired ==
    lastCall.op = "submitProof" =>
        /\ orders[lastCall.orderId].status = "PendingConfirmation"
        /\ orders[lastCall.orderId].proofImage # ""

\* C30 (delivery assignment): assignDeliveryManToOrder succeeds only when the
\* caller is an admin, the account holds the delivery flag and the order
\* exists; otherwise it fails with no change.  On success it sets the order's
\* responsible delivery man and leaves the order's status, proof and delivery
\* log unchanged.
C30_EveryCall ==
    \A sender \in Senders, orderId \in OrderIds, deliveryMan \in Addr :
        LET r == assignDeliveryManToOrder(Cur, sender, orderId, deliveryMan)
        IN /\ r.ok <=> /\ admins[sender]
                       /\ deliveryMen[deliveryMan]
                       /\ orders[orderId].id # 0
           /\ ~r.ok => r.st = Cur
           /\ r.ok =>
                /\ r.st.orderDeliveryMan[orderId] = deliveryMan
                /\ r.st.orders = orders
                /\ r.st.deliveryLogs = deliveryLogs
                /\ r.st =
                     [Cur EXCEPT
                        !.orderDeliveryMan[orderId] = deliveryMan,
                        !.ordersByDeliveryMan[deliveryMan] =
                            Append(@, orderId)]

C30_Steps ==
    lastCall'.op = "assignDeliveryManToOrder" =>
        /\ admins[lastCall'.sender] /\ deliveryMen[lastCall'.account]
        /\ orders[lastCall'.orderId].id # 0
        /\ orderDeliveryMan'[lastCall'.orderId] = lastCall'.account
        /\ orders' = orders /\ deliveryLogs' = deliveryLogs

C30_Assignment == [](C30_EveryCall) /\ [][C30_Steps]_vars

\* Order 1, already out for delivery, has just been assigned to carol; it is
\* still OutForDelivery with the one log entry it had.  alice holds no
\* delivery flag, order 0 does not exist and carol is no admin.
C30_Witness ==
    /\ lastCall.op = "assignDeliveryManToOrder" /\ lastCall.orderId = 1
    /\ orderDeliveryMan[1] = "carol"
    /\ getOrdersForDelivery(Cur, "carol") = <<1>>
    /\ orders[1].status = "OutForDelivery" /\ Len(deliveryLogs[1]) = 1
    /\ ~deliveryMen["alice"]
    /\ assignDeliveryManToOrder(Cur, Owner, 2, "alice").err = "not delivery"
    /\ assignDeliveryManToOrder(Cur, Owner, 0, "carol").err
         = "order not found"
    /\ assignDeliveryManToOrder(Cur, "carol", 2, "carol").err = "admin only"

\* C31 (legacy refund path): refundApproved <= amountPaid for every payment
\* record; approval fails once refundClaimed is true; claimRefund succeeds only
\* for the recorded buyer with refundApproved > 0 and refundClaimed false, pays
\* exactly refundApproved and sets refundClaimed true and refundApproved 0, so
\* no record is claimed twice.
C31_Records ==
    \A orderId \in OrderIds :
        LET p == payments[orderId]
        IN /\ p.refundApproved <= p.amountPaid
           /\ p.refundClaimed => p.refundApproved = 0

C31_EveryCall ==
    \A sender \in Senders, orderId \in OrderIds :
        LET p == payments[orderId]
            full == approveFullRefund(Cur, sender, orderId)
        IN /\ p.refundClaimed => ~full.ok /\ full.st = Cur
           /\ full.ok =>
                full.st = [Cur EXCEPT
                             !.payments[orderId].refundApproved = p.amountPaid]
           /\ \A refundAmount \in Amounts :
                LET part == approvePartialRefund(Cur, sender, orderId,
                                                 refundAmount)
                IN /\ p.refundClaimed => ~part.ok /\ part.st = Cur
                   /\ part.ok =>
                        /\ 0 < refundAmount /\ refundAmount < p.amountPaid
                        /\ part.st =
                             [Cur EXCEPT !.payments[orderId].refundApproved =
                                             refundAmount]
           /\ \A recv \in {Accept, Reject} :
                LET r == claimRefund(Cur, sender, orderId, recv)
                IN /\ r.ok =>
                        /\ sender = p.buyer /\ p.refundApproved > 0
                        /\ ~p.refundClaimed
                        /\ r.st.balance = balance - p.refundApproved
                        /\ r.st.payments =
                             [payments EXCEPT
                                ![orderId].refundClaimed = TRUE,
                                ![orderId].refundApproved = 0]
                   /\ ~r.ok => r.st = Cur

C31_Steps ==
    \A orderId \in OrderIds :
        /\ (lastCall'.op = "claimRefund" /\ lastCall'.orderId = orderId) =>
             /\ ~payments[orderId].refundClaimed
             /\ payments'[orderId].refundClaimed
             /\ lastCall'.sender = payments[orderId].buyer
             /\ lastCall'.value = payments[orderId].refundApproved
             /\ balance' = balance - payments[orderId].refundApproved
        /\ (payments[orderId].refundClaimed /\ lastCall'.orderId = orderId) =>
             lastCall'.op \notin {"claimRefund", "approvePartialRefund",
                                  "approveFullRefund"}

C31_LegacyRefund == [](C31_Records /\ C31_EveryCall) /\ [][C31_Steps]_vars

\* The owner approved 1 of the 2 wei of alice's payment for order 1 and alice
\* has just claimed it: 1 wei is left, the record is claimed with nothing
\* approved, and neither a new approval nor a second claim gets through.
C31_Witness ==
    /\ lastCall.op = "claimRefund" /\ lastCall.orderId = 1
    /\ lastCall.value = 1 /\ lastCall.xfer = "ok"
    /\ payments[1].refundClaimed /\ payments[1].refundApproved = 0
    /\ payments[1].amountPaid = 2
    /\ orders[0] = NoOrder /\ balance = 1
    /\ approveFullRefund(Cur, Owner, 1).err = "refund claimed"
    /\ approvePartialRefund(Cur, Owner, 1, 1).err = "refund claimed"
    /\ claimRefund(Cur, "alice", 1, Accept).err = "no refund"

\* Some enabled mode of the product has stock left.
anyStock(p) ==
    \/ p.enableIndividual /\ p.individualStock > 0
    \/ p.enableSet /\ p.setStock > 0

\* In storage st the derived status of every stored product is up to date.
statusFresh(st) ==
    \A id \in ProductIds :
        st.products[id] # NoProduct =>
            (st.productInventoryStatus[id] = "InStock"
                <=> anyStock(st.products[id]))

\* C32 (derived inventory status is fresh): for every existing product
\* productInventoryStatus[id] is InStock exactly when some enabled mode has
\* stock > 0; it flips to OutOfStock in the operation that sells the last
\* unit.
C32_EveryCall ==
    /\ statusFresh(Cur)
    /\ \A id \in ProductIds :
         /\ \A c \in ConfigSpace : statusFresh(addProduct(Cur, Owner, id, c).st)
         /\ \A sender \in Buyers :
              /\ \A orderId \in OrderIds, value \in Values :
                   statusFresh(paywithMetamask(Cur, sender, orderId, id,
                                               value).st)
              /\ \A isSet \in BOOLEAN, qty \in Quantities, value \in Values :
                   statusFresh(buy(Cur, sender, id, isSet, qty, "DHL-123",
                                   value).st)

C32_Steps ==
    lastCall'.op \in {"buy", "paywithMetamask"} =>
        LET id == lastCall'.productId
        IN /\ anyStock(products[id])
           /\ productInventoryStatus[id] = "InStock"
           /\ productInventoryStatus'[id] =
                IF anyStock(products'[id]) THEN "InStock" ELSE "OutOfStock"

C32_InventoryStatus == [](C32_EveryCall) /\ [][C32_Steps]_vars

\* The last box of a box-only product has just been bought: no stock is left
\* and the status is OutOfStock.
C32_Witness ==
    /\ lastCall.op = "buy" /\ lastCall.productId = 1
    /\ products[1].enableIndividual /\ ~products[1].enableSet
    /\ products[1].individualStock = 0
    /\ productInventoryStatus[1] = "OutOfStock"

\* ---------------------------------------------------------------- C33
\* The configurations updateProduct is tried with in every state.
AuditSpace == ConfigSpace \cup AuditConfigs

\* The configuration is one addProduct rejects on a freshly deployed catalog.
violatesAddTime(c) == ~catalogAddProduct(catalogConstructor(Owner), Owner, 1, c).ok

auditAction(op) ==
    CASE op = "addProduct" -> "ADD_PRODUCT"
      [] op = "updateProduct" -> "UPDATE_PRODUCT"
      [] op = "deactivateProduct" -> "DEACTIVATE_PRODUCT"
      [] op = "reactivateProduct" -> "REACTIVATE_PRODUCT"

C33_EveryCall ==
    \A sender \in {Owner, "alice"}, id \in ProductIds, c \in AuditSpace :
        LET r == updateProduct(CatalogCur, sender, id, c)
            old == catalogProducts[id]
            new == r.st.products[id]
        IN /\ (old.id = 0 \/ violatesAddTime(c)) =>
                ~r.ok /\ r.st = CatalogCur
           /\ r.ok =>
                /\ new = [id |-> old.id, status |-> old.status,
                          name |-> c.name, description |-> c.description,
                          priceWei |-> c.priceWei,
                          enableIndividual |-> c.enableIndividual,
                          enableSet |-> c.enableSet,
                          individualPriceWei |-> c.individualPriceWei,
                          individualStock |-> c.individualStock,
                          setPriceWei |-> c.setPriceWei,
                          setStock |-> c.setStock, setBoxes |-> c.setBoxes]
                /\ \A other \in ProductIds \ {id} :
                     r.st.products[other] = catalogProducts[other]
                /\ r.st.admin = catalogAdmin

C33_Steps ==
    lastCall'.op \in {"addProduct", "updateProduct", "deactivateProduct",
                      "reactivateProduct"} =>
        LET id == lastCall'.productId
        IN /\ productAudits'[id] =
                Append(productAudits[id],
                       [actor |-> lastCall'.sender,
                        action |-> auditAction(lastCall'.op)])
           /\ getProductAuditCount(CatalogCur', id) =
                getProductAuditCount(CatalogCur, id) + 1
           /\ \A other \in ProductIds \ {id} :
                productAudits'[other] = productAudits[other]

\* C33 (updateProduct and the audit trail, catalog contract): updateProduct
\* fails and changes nothing when the id does not exist or the configuration
\* is one addProduct rejects; when it succeeds it overwrites name,
\* description, prices, stocks, mode flags and setBoxes, and leaves the id and
\* the status as they were.  Every successful addProduct, updateProduct,
\* deactivateProduct and reactivateProduct appends exactly one audit record to
\* its product and none to another, so getProductAuditCount(id), 0 at
\* deployment, is the number of successful mutating calls on id.
C33_UpdateAndAudit == [](C33_EveryCall) /\ [][C33_Steps]_vars

\* Product 1 was added as BoxOnly, deactivated, and then updated to Deluxe: it
\* is still Inactive, every written field is Deluxe's, and it has three audit
\* records.
C33_Witness ==
    /\ lastCall.op = "updateProduct" /\ lastCall.productId = 1
    /\ catalogProducts[1].id = 1 /\ catalogProducts[1].status = "Inactive"
    /\ catalogProducts[1].name = "Deluxe" /\ catalogProducts[1].enableSet
    /\ catalogProducts[1].individualStock = 0
    /\ getProductAuditCount(CatalogCur, 1) = 3
    /\ productAudits[1][3].action = "UPDATE_PRODUCT"

\* ---------------------------------------------------------------- C34
\* The sum of f[x] over the finite set S of keys.
RECURSIVE sumOver(_, _)
sumOver(f, S) ==
    IF S = {} THEN 0
    ELSE LET x == CHOOSE y \in S : TRUE
         IN f[x] + sumOver(f, S \ {x})

\* What payRefund has sent for the order: the amounts of its tickets in
\* status Paid (a ticket becomes Paid in payRefund only, together with the
\* transfer of its amount).
paidByTickets(st, orderId) ==
    sumOver([i \in RefundIds |->
                IF st.refunds[i].id # 0 /\ st.refunds[i].orderId = orderId
                   /\ st.refunds[i].status = "Paid"
                THEN st.refunds[i].amount ELSE 0],
            RefundIds)

\* C34 (total refunds per order are bounded by what was paid): for every
\* order, the amounts disbursed for it never exceed the order's paid amount.
\* Stated for the payRefund disbursements alone, which the legacy claimRefund
\* can only add to.
C34_RefundsBounded ==
    \A orderId \in OrderIds :
        paidByTickets(Cur, orderId) <= orders[orderId].paid

\* ---------------------------------------------------------------- C38
\* What the contract owes to approved refunds: the amounts of the tickets in
\* status Approved plus the legacy refundApproved amounts not yet claimed.
owedToApproved(st) ==
    sumOver([i \in RefundIds |->
                IF st.refunds[i].id # 0 /\ st.refunds[i].status = "Approved"
                THEN st.refunds[i].amount ELSE 0],
            RefundIds)
    + sumOver([o \in OrderIds |->
                  IF st.payments[o].refundClaimed THEN 0
                  ELSE st.payments[o].refundApproved],
              OrderIds)

\* C38 (approved refunds stay funded): in every reachable state the contract's
\* balance is at least the sum of the amounts of all Approved tickets plus all
\* legacy refundApproved amounts not yet claimed.
C38_ApprovedFunded == balance >= owedToApproved(Cur)

\* ---------------------------------------------------------------- C35
\* The units of a product sold in one mode according to the stored orders;
\* a record counts as stored when it has a buyer, whatever its key.
soldByOrders(st, productId, isSet) ==
    sumOver([o \in OrderIds |->
                IF st.orders[o].buyer # ZeroAddr
                   /\ st.orders[o].productId = productId
                   /\ st.orders[o].isSet = isSet
                THEN st.orders[o].qty ELSE 0],
            OrderIds)

\* C35 (no overselling, stock/order accounting): for product 1, added with
\* BoxesOfThree, and each mode, the stock given at addProduct equals the
\* current stock of that mode plus the sum of qty over all stored orders for
\* that product and mode.
C35_StockAccounting ==
    /\ BoxesOfThree.individualStock =
           products[1].individualStock + soldByOrders(Cur, 1, FALSE)
    /\ BoxesOfThree.setStock =
           products[1].setStock + soldByOrders(Cur, 1, TRUE)

\* ---------------------------------------------------------------- C37
\* Some delivery operation on the order, by the owner or by carol (a delivery
\* man), succeeds in the storage st.
someDeliveryStep(st, orderId) ==
    \E sender \in {Owner, "carol"} :
        \/ markOutForDelivery(st, sender, orderId, "DHL-123").ok
        \/ \E proofImage \in Proofs :
               submitProof(st, sender, orderId, proofImage).ok
        \/ confirmDelivery(st, sender, orderId).ok
        \/ \E status \in OrderStatus, proofImage \in Proofs :
               \/ deliveryAddStatus(st, sender, orderId, status, "note",
                                    proofImage).ok
               \/ deliveryUpdateStatus(st, sender, orderId, status, "note",
                                       proofImage).ok

\* C37 (every paid order can be completed): no order accepted by buy or
\* paywithMetamask is stuck in Paid: for every stored order in status Paid
\* the first step towards Completed exists, that is, some delivery operation
\* by an admin or a delivery man succeeds on it.
C37_PaidCanComplete ==
    \A orderId \in OrderIds :
        (orders[orderId].buyer # ZeroAddr /\ orders[orderId].status = "Paid")
            => someDeliveryStep(Cur, orderId)

\* ---------------------------------------------------------------- C39
\* C39 (delivery assignment index is consistent): for every delivery man d,
\* every order id in getOrdersForDelivery(d) has orderDeliveryMan[id] = d and
\* appears in that list once.
C39_AssignmentIndex ==
    \A d \in Addr :
        LET list == getOrdersForDelivery(Cur, d)
        IN \A i \in 1 .. Len(list) :
               /\ orderDeliveryMan[list[i]] = d
               /\ \A j \in 1 .. Len(list) : list[j] = list[i] => j = i

\* ---------------------------------------------------------------- C36
\* The account is neither the owner nor currently an admin.
outsider(st, a) == a # st.owner /\ ~st.admins[a]

\* No flag of st is true in new that is not true in st, and the owner is the
\* same.
noNewPrivilege(st, new) ==
    /\ new.owner = st.owner
    /\ \A a \in Addr :
         /\ new.admins[a] => st.admins[a]
         /\ new.deliveryMen[a] => st.deliveryMen[a]

\* Every call of a function that writes a role, a flag or a user.
roleAndUserCalls ==
    {c \in HookCalls :
        c.fn \in {"addAdmin", "addDeliveryMan", "assignRole", "registerUser",
                  "updateUserProfile", "deactivateUser", "reactivateUser"}}

C36_EveryCall ==
    /\ owner = Owner
    /\ \A sender \in Addr :
         outsider(Cur, sender) =>
           \A c \in roleAndUserCalls :
               noNewPrivilege(Cur, external(Cur, sender, c).st)

C36_Steps ==
    /\ owner' = owner
    /\ outsider(Cur, lastCall'.sender) => noNewPrivilege(Cur, Cur')

\* C36 (no privilege escalation): from deployment, where the owner is the only
\* admin, no call made by an account that is neither the owner nor currently
\* an admin makes any account's admin flag or delivery flag true, whatever the
\* owner and the admins did before, and the owner address never changes.
C36_NoEscalation == [](C36_EveryCall) /\ [][C36_Steps]_vars

\* alice, a delivery man the owner appointed, is neither owner nor admin; her
\* payment was the latest successful call.  bob, whom the owner made an admin
\* and registered as a user, has set his profile hash and was deactivated; he
\* is the only admin next to the owner.
C36_Witness ==
    /\ lastCall.op = "paywithMetamask" /\ lastCall.sender = "alice"
    /\ outsider(Cur, "alice") /\ deliveryMen["alice"]
    /\ users["bob"] = [exists |-> TRUE, active |-> FALSE, profileHash |-> 2]
    /\ admins["bob"] /\ admins[Owner] /\ owner = Owner

====
